---- MODULE Spec2Model ----
(***************************************************************************)
(* A model of the SCOS kernel: the fixed size block allocator              *)
(* (src/allocator/fixed_size_block.rs), the heap set up by init_heap       *)
(* (src/allocator/mod.rs), the boot-info frame allocator and the address   *)
(* translation (src/memory.rs), the boot flow (src/lib.rs), the executor   *)
(* and the keyboard task (src/task), and the VGA writer                    *)
(* (src/vga_buffer.rs).                                                    *)
(*                                                                         *)
(* Addresses are integers.  TLC's integers are 32 bits wide, so HEAP_START *)
(* is the low 32 bits of the source's 0x4444_4444_0000; every alignment    *)
(* the model uses divides 2^16, so alignment of heap addresses is the same *)
(* as in the kernel.  The null pointer is 0.                               *)
(***************************************************************************)
EXTENDS Integers, Sequences, FiniteSets, TLC

VARIABLES
    initialised,  \* FixedSizeBlockAllocator::init has run
    list_heads,   \* FixedSizeBlockAllocator.list_heads: class index -> head pointer (NULL = None)
    nodes,        \* the ListNodes written into freed blocks: address -> next (NULL = None)
    holes,        \* free regions of fallback_allocator, ascending by address
    live,         \* allocations handed out and not yet deallocated
    last,         \* the most recent call on the allocator and what it did
    hist,         \* per size class: the most recent call that selected the class
    memory_map,   \* BootInfoFrameAllocator.memory_map
    next,         \* BootInfoFrameAllocator.next
    issued,       \* frames returned by allocate_frame so far, in call order
    frame_last,   \* result of the most recent allocate_frame call
    li_layout,    \* the layout handed to list_index
    li_result,    \* what list_index returned for it
    pc,           \* where the boot flow stands in scos::init
    interrupts_enabled, \* the CPU's interrupt flag
    cr3,          \* the table-root register: start address of the level 4 table's frame
    tables,       \* present page-table entries: [table, index, frame, huge]
    mapper,       \* the OffsetPageTable made by memory::init: its level 4 table
    heap_index,   \* init_heap: pages of the page range the loop has taken
    mapped,       \* init_heap: the <<page, frame>> pairs it has mapped, in order
    heap_error,   \* init_heap: the error a frame request or map_to raised
    heap_result,  \* init_heap: what it returned
    ran,          \* how many times each initialisation has run
    tr,           \* the most recent translate_addr call
    irq_in_init,  \* an interrupt handler has run during scos::init or after a panic
    lock,         \* Locked.inner: the caller holding the spin::Mutex, 0 when it is free
    callers,      \* per contending caller: its call on the allocator and how far it is
    serial,       \* the allocator as it would be had the calls run one after another
    exec,         \* the executor, its task and wakers, and what interrupt handlers met
    heap_info,    \* init_heap: the HeapInfo it returned in Ok
    kbd,          \* task::keyboard: SCANCODE_QUEUE and the calls of ScancodeStream::new
    vga,          \* vga_buffer: the WRITER lock and the flow that prints
    executor,     \* task::executor: the Executor's collections and where its loop stands
    keys,         \* task::keyboard: the scancode queue, the WAKER and a poll_next call
    writer        \* vga_buffer: the Writer and the character buffer it writes to

allocVars == <<initialised, list_heads, nodes, holes, live, last, hist>>
frameVars == <<memory_map, next, issued, frame_last>>
indexVars == <<li_layout, li_result>>
bootVars == <<pc, interrupts_enabled, cr3, tables, mapper, heap_index, mapped,
              heap_error, heap_result, ran, tr, irq_in_init, heap_info>>
lockVars == <<lock, callers, serial>>
taskVars == <<executor, keys, writer>>
ioVars == <<kbd, vga, taskVars>>
vars == <<initialised, list_heads, nodes, holes, live, last, hist,
          memory_map, next, issued, frame_last, li_layout, li_result,
          pc, interrupts_enabled, cr3, tables, mapper, heap_index, mapped,
          heap_error, heap_result, ran, tr, irq_in_init, lock, callers, serial, exec,
          heap_info, kbd, vga, executor, keys, writer>>

(***************************************************************************)
(* Program constants                                                       *)
(***************************************************************************)
NULL == 0
HEAP_START == 1145307136
HEAP_SIZE == 10240
BLOCK_SIZES == <<8, 16, 32, 64, 128, 256, 512, 1024, 2048>>
PAGE_SIZE == 4096

(***************************************************************************)
(* Bounds of the model                                                     *)
(***************************************************************************)
MaxLive == 2          \* allocations alive at the same time
MaxReqSize == 2100    \* sizes handed to list_index
MaxAlignLog == 12     \* alignments handed to list_index are 2^0 .. 2^MaxAlignLog
MaxFrameNo == 4       \* the memory map covers frame numbers 0 .. MaxFrameNo
MaxRegions == 3       \* regions in the memory map
MaxCalls == 6         \* allocate_frame calls
ScenarioFrames == 16  \* frames of the usable region of the frame-uniqueness scenario
MaxScenarioStart == 3 \* first frame number of that region, and frames beside it
MaxBootFrames == 7    \* usable frames in the memory map the kernel boots with
OffsetStride == 512   \* distance between the heap addresses whose translation is compared
MaxCallers == 2       \* contexts contending for the allocator lock
QueueCapacity == 2    \* slots of the scancode queue and of the wake queue

\* Option<usize>
None == <<>>
Some(x) == <<x>>

Max(a, b) == IF a >= b THEN a ELSE b

RECURSIVE Pow2(_)
Pow2(k) == IF k = 0 THEN 1 ELSE 2 * Pow2(k - 1)

ClassIndexes == 0 .. (Len(BLOCK_SIZES) - 1)
BlockSize(index) == BLOCK_SIZES[index + 1]

(***************************************************************************)
(* list_index: the position of the first block size >= max(size, align).   *)
(***************************************************************************)
RECURSIVE position_from(_, _)
position_from(i, required_size) ==
    IF i > Len(BLOCK_SIZES) THEN None
    ELSE IF BLOCK_SIZES[i] >= required_size THEN Some(i - 1)
    ELSE position_from(i + 1, required_size)

\* a slip: only the size is considered
list_index_size_only(size, align) == position_from(1, size)

\* a slip: a request above the largest class is clamped into it
list_index_clamped(size, align) ==
    LET r == position_from(1, Max(size, align))
    IN  IF r = None THEN Some(Len(BLOCK_SIZES) - 1) ELSE r

list_index(size, align) ==
    LET required_size == Max(size, align)
    IN  position_from(1, required_size)

(***************************************************************************)
(* The fallback allocator (linked_list_allocator::Heap): first fit over a  *)
(* list of free byte ranges kept in address order, split on allocation and *)
(* coalesced on release.                                                   *)
(***************************************************************************)
align_up(addr, align) == ((addr + align - 1) \div align) * align

HoleFits(h, size, align) ==
    align_up(h.addr, align) + size <= h.addr + h.size

RECURSIVE first_fit_from(_, _, _, _)
first_fit_from(hs, i, size, align) ==
    IF i > Len(hs) THEN 0
    ELSE IF HoleFits(hs[i], size, align) THEN i
    ELSE first_fit_from(hs, i + 1, size, align)

Hole(a, s) == [addr |-> a, size |-> s]
HoleSeq(a, s) == IF s > 0 THEN <<Hole(a, s)>> ELSE <<>>

\* Heap::allocate_first_fit: Ok(ptr) or Err(())
allocate_first_fit(hs, size, align) ==
    LET i == first_fit_from(hs, 1, size, align)
    IN  IF i = 0 THEN [ok |-> FALSE, ptr |-> NULL, holes |-> hs]
        ELSE LET h == hs[i]
                 p == align_up(h.addr, align)
             IN  [ok |-> TRUE, ptr |-> p,
                  holes |-> SubSeq(hs, 1, i - 1)
                            \o HoleSeq(h.addr, p - h.addr)
                            \o HoleSeq(p + size, (h.addr + h.size) - (p + size))
                            \o SubSeq(hs, i + 1, Len(hs))]

RECURSIVE insert_hole(_, _, _)
insert_hole(hs, a, s) ==
    IF hs = <<>> THEN <<Hole(a, s)>>
    ELSE LET h == Head(hs)
         IN  IF h.addr + h.size < a THEN <<h>> \o insert_hole(Tail(hs), a, s)
             ELSE IF h.addr + h.size = a THEN insert_hole(Tail(hs), h.addr, h.size + s)
             ELSE IF a + s = h.addr THEN <<Hole(a, s + h.size)>> \o Tail(hs)
             ELSE <<Hole(a, s)>> \o hs

\* Heap::deallocate
deallocate(hs, ptr, size) == insert_hole(hs, ptr, size)

\* Heap::empty and Heap::init(heap_bottom, heap_size)
heap_empty == <<>>
heap_init(heap_bottom, heap_size) == HoleSeq(heap_bottom, heap_size)

RECURSIVE Capacity(_)
Capacity(hs) == IF hs = <<>> THEN 0 ELSE Head(hs).size + Capacity(Tail(hs))

(***************************************************************************)
(* The block allocator.  alloc_step and dealloc_step are the bodies of     *)
(* GlobalAlloc::alloc and GlobalAlloc::dealloc run under the lock: from    *)
(* the list heads, the node memory and the fallback free list they give    *)
(* the returned pointer, the new state and the call made on the fallback   *)
(* allocator (fb = None when it was not called).                           *)
(***************************************************************************)
LIST_NODE_SIZE == 8
LIST_NODE_ALIGN == 8

\* a slip: a failure of the fallback allocator is turned into a dangling
\* non-null pointer
fallback_alloc_dangling(hs, size, align) ==
    LET r == allocate_first_fit(hs, size, align)
    IN  IF r.ok THEN [ptr |-> r.ptr, holes |-> r.holes]
        ELSE [ptr |-> align, holes |-> r.holes]

\* FixedSizeBlockAllocator::fallback_alloc: Ok(ptr) => ptr, Err(_) => null
fallback_alloc(hs, size, align) ==
    LET r == allocate_first_fit(hs, size, align)
    IN  IF r.ok THEN [ptr |-> r.ptr, holes |-> r.holes]
        ELSE [ptr |-> NULL, holes |-> r.holes]

Without(nds, a) == [x \in (DOMAIN nds) \ {a} |-> nds[x]]

\* a slip: the popped node stays the head of its list
alloc_step_keeps_head(heads, nds, hs, size, align) ==
    LET idx == list_index(size, align)
    IN  IF idx # None
        THEN LET index == idx[1]
             IN  IF heads[index] # NULL
                 THEN [ptr |-> heads[index], heads |-> heads, nodes |-> nds,
                       holes |-> hs, fb |-> None]
                 ELSE LET r == fallback_alloc(hs, BlockSize(index), BlockSize(index))
                      IN  [ptr |-> r.ptr, heads |-> heads, nodes |-> nds,
                           holes |-> r.holes,
                           fb |-> Some(<<BlockSize(index), BlockSize(index)>>)]
        ELSE LET r == fallback_alloc(hs, size, align)
             IN  [ptr |-> r.ptr, heads |-> heads, nodes |-> nds,
                  holes |-> r.holes, fb |-> Some(<<size, align>>)]

\* a slip: a fresh block is requested with the caller's layout, not the class's
alloc_step_caller_layout(heads, nds, hs, size, align) ==
    LET idx == list_index(size, align)
    IN  IF idx # None
        THEN LET index == idx[1]
             IN  IF heads[index] # NULL
                 THEN [ptr |-> heads[index],
                       heads |-> [heads EXCEPT ![index] = nds[heads[index]]],
                       nodes |-> Without(nds, heads[index]),
                       holes |-> hs, fb |-> None]
                 ELSE LET r == fallback_alloc(hs, size, align)
                      IN  [ptr |-> r.ptr, heads |-> heads, nodes |-> nds,
                           holes |-> r.holes, fb |-> Some(<<size, align>>)]
        ELSE LET r == fallback_alloc(hs, size, align)
             IN  [ptr |-> r.ptr, heads |-> heads, nodes |-> nds,
                  holes |-> r.holes, fb |-> Some(<<size, align>>)]

\* a slip: the popped node's successor is lost, the list is left empty
alloc_step_drops_list(heads, nds, hs, size, align) ==
    LET idx == list_index(size, align)
    IN  IF idx # None
        THEN LET index == idx[1]
             IN  IF heads[index] # NULL
                 THEN [ptr |-> heads[index],
                       heads |-> [heads EXCEPT ![index] = NULL],
                       nodes |-> Without(nds, heads[index]),
                       holes |-> hs, fb |-> None]
                 ELSE LET r == fallback_alloc(hs, BlockSize(index), BlockSize(index))
                      IN  [ptr |-> r.ptr, heads |-> heads, nodes |-> nds,
                           holes |-> r.holes,
                           fb |-> Some(<<BlockSize(index), BlockSize(index)>>)]
        ELSE LET r == fallback_alloc(hs, size, align)
             IN  [ptr |-> r.ptr, heads |-> heads, nodes |-> nds,
                  holes |-> r.holes, fb |-> Some(<<size, align>>)]

\* a slip: a fresh block is also made the head of its class's free list
alloc_step_links_fresh(heads, nds, hs, size, align) ==
    LET idx == list_index(size, align)
    IN  IF idx # None
        THEN LET index == idx[1]
             IN  IF heads[index] # NULL
                 THEN [ptr |-> heads[index],
                       heads |-> [heads EXCEPT ![index] = nds[heads[index]]],
                       nodes |-> Without(nds, heads[index]),
                       holes |-> hs, fb |-> None]
                 ELSE LET r == fallback_alloc(hs, BlockSize(index), BlockSize(index))
                      IN  [ptr |-> r.ptr, heads |-> [heads EXCEPT ![index] = r.ptr],
                           nodes |-> nds, holes |-> r.holes,
                           fb |-> Some(<<BlockSize(index), BlockSize(index)>>)]
        ELSE LET r == fallback_alloc(hs, size, align)
             IN  [ptr |-> r.ptr, heads |-> heads, nodes |-> nds,
                  holes |-> r.holes, fb |-> Some(<<size, align>>)]

alloc_step(heads, nds, hs, size, align) ==
    LET idx == list_index(size, align)
    IN  IF idx # None
        THEN LET index == idx[1]
             IN  IF heads[index] # NULL
                 THEN \* Some(node): the head moves to node.next, node is returned
                      LET node == heads[index]
                      IN  [ptr |-> node,
                           heads |-> [heads EXCEPT ![index] = nds[node]],
                           nodes |-> Without(nds, node),
                           holes |-> hs,
                           fb |-> None]
                 ELSE \* None: a new block of the class's size and alignment
                      LET block_size == BlockSize(index)
                          block_align == block_size
                          r == fallback_alloc(hs, block_size, block_align)
                      IN  [ptr |-> r.ptr, heads |-> heads, nodes |-> nds,
                           holes |-> r.holes,
                           fb |-> Some(<<block_size, block_align>>)]
        ELSE LET r == fallback_alloc(hs, size, align)
             IN  [ptr |-> r.ptr, heads |-> heads, nodes |-> nds,
                  holes |-> r.holes, fb |-> Some(<<size, align>>)]

\* a slip: the freed block is not made the head of its list
dealloc_step_drops_block(heads, nds, hs, ptr, size, align) ==
    LET idx == list_index(size, align)
    IN  IF idx # None
        THEN [heads |-> heads, nodes |-> nds, holes |-> hs, fb |-> None,
              panic |-> FALSE]
        ELSE [heads |-> heads, nodes |-> nds,
              holes |-> deallocate(hs, ptr, size),
              fb |-> Some(<<ptr, size, align>>), panic |-> FALSE]

\* a slip: every block is released to the fallback allocator
dealloc_step_to_fallback(heads, nds, hs, ptr, size, align) ==
    [heads |-> heads, nodes |-> nds, holes |-> deallocate(hs, ptr, size),
     fb |-> Some(<<ptr, size, align>>), panic |-> FALSE]

\* a slip: a block above the largest class is released with the largest
\* class's size instead of the caller's layout
dealloc_step_class_size(heads, nds, hs, ptr, size, align) ==
    LET idx == list_index(size, align)
    IN  IF idx # None
        THEN [heads |-> [heads EXCEPT ![idx[1]] = ptr],
              nodes |-> (ptr :> heads[idx[1]]) @@ nds,
              holes |-> hs, fb |-> None, panic |-> FALSE]
        ELSE LET s == BlockSize(Len(BLOCK_SIZES) - 1)
             IN  [heads |-> heads, nodes |-> nds,
                  holes |-> deallocate(hs, ptr, s),
                  fb |-> Some(<<ptr, s, s>>), panic |-> FALSE]

\* a slip: the assertions ask for a node smaller than the block
dealloc_step_strict_assert(heads, nds, hs, ptr, size, align) ==
    LET idx == list_index(size, align)
    IN  IF idx # None
        THEN IF ~(LIST_NODE_SIZE < BlockSize(idx[1]) /\ LIST_NODE_ALIGN < BlockSize(idx[1]))
             THEN [heads |-> [heads EXCEPT ![idx[1]] = NULL], nodes |-> nds,
                   holes |-> hs, fb |-> None, panic |-> TRUE]
             ELSE [heads |-> [heads EXCEPT ![idx[1]] = ptr],
                   nodes |-> (ptr :> heads[idx[1]]) @@ nds,
                   holes |-> hs, fb |-> None, panic |-> FALSE]
        ELSE [heads |-> heads, nodes |-> nds,
              holes |-> deallocate(hs, ptr, size),
              fb |-> Some(<<ptr, size, align>>), panic |-> ptr = NULL]

\* a slip: the class of a freed block is chosen by its size alone
dealloc_step_by_size(heads, nds, hs, ptr, size, align) ==
    LET idx == list_index(size, 1)
    IN  IF idx # None
        THEN [heads |-> [heads EXCEPT ![idx[1]] = ptr],
              nodes |-> (ptr :> heads[idx[1]]) @@ nds,
              holes |-> hs, fb |-> None, panic |-> FALSE]
        ELSE [heads |-> heads, nodes |-> nds,
              holes |-> deallocate(hs, ptr, size),
              fb |-> Some(<<ptr, size, align>>), panic |-> ptr = NULL]

\* a slip: the new node does not point to the previous head
dealloc_step_forgets_next(heads, nds, hs, ptr, size, align) ==
    LET idx == list_index(size, align)
    IN  IF idx # None
        THEN [heads |-> [heads EXCEPT ![idx[1]] = ptr],
              nodes |-> (ptr :> NULL) @@ nds,
              holes |-> hs, fb |-> None, panic |-> FALSE]
        ELSE [heads |-> heads, nodes |-> nds,
              holes |-> deallocate(hs, ptr, size),
              fb |-> Some(<<ptr, size, align>>), panic |-> ptr = NULL]

dealloc_step(heads, nds, hs, ptr, size, align) ==
    LET idx == list_index(size, align)
    IN  IF idx # None
        THEN LET index == idx[1]
                 new_node_next == heads[index]
             IN  IF ~(LIST_NODE_SIZE <= BlockSize(index)
                      /\ LIST_NODE_ALIGN <= BlockSize(index))
                 THEN \* an assertion fails after the head was taken
                      [heads |-> [heads EXCEPT ![index] = NULL], nodes |-> nds,
                       holes |-> hs, fb |-> None, panic |-> TRUE]
                 ELSE [heads |-> [heads EXCEPT ![index] = ptr],
                       nodes |-> (ptr :> new_node_next) @@ nds,
                       holes |-> hs, fb |-> None, panic |-> FALSE]
        ELSE [heads |-> heads, nodes |-> nds,
              holes |-> deallocate(hs, ptr, size),
              fb |-> Some(<<ptr, size, align>>),
              panic |-> ptr = NULL]

(***************************************************************************)
(* Requests the kernel makes: one or two layouts for several classes, with *)
(* the alignment or the size deciding the class, and layouts above the     *)
(* largest class.                                                          *)
(***************************************************************************)
Requests == { <<24, 8>>, <<20, 4>>, <<16, 2048>>, <<4096, 4096>>, <<8192, 4096>> }

NoCall == [op |-> "none", size |-> 0, align |-> 0, ptr |-> NULL, fb |-> None,
           cap |-> 0, panic |-> FALSE]
NoHist == [op |-> "none", ptr |-> NULL]

\* FixedSizeBlockAllocator::new
InitAlloc ==
    /\ initialised = FALSE
    /\ list_heads = [i \in ClassIndexes |-> NULL]
    /\ nodes = <<>>
    /\ holes = heap_empty
    /\ live = {}
    /\ last = NoCall
    /\ hist = [i \in ClassIndexes |-> NoHist]

\* a slip: the heap is given the whole of the pages mapped for it
fsb_init_whole_pages(heap_start, heap_end) ==
    heap_init(heap_start, align_up(heap_end, PAGE_SIZE))

\* FixedSizeBlockAllocator::init(heap_start, heap_end)
fsb_init(heap_start, heap_end) == heap_init(heap_start, heap_end)

\* init_heap: ALLOCATOR.lock().init(HEAP_START, HEAP_SIZE)
init_heap ==
    /\ ~initialised
    /\ initialised' = TRUE
    /\ holes' = fsb_init(HEAP_START, HEAP_SIZE)
    /\ last' = [NoCall EXCEPT !.op = "init"]
    /\ UNCHANGED <<list_heads, nodes, live, hist>>

HistAfter(size, align, op, ptr) ==
    LET idx == list_index(size, align)
    IN  IF idx = None THEN hist
        ELSE [hist EXCEPT ![idx[1]] =
                 [op |-> op, ptr |-> IF op = "dealloc" THEN ptr ELSE NULL]]

alloc(size, align) ==
    /\ ~last.panic
    /\ LET r == alloc_step(list_heads, nodes, holes, size, align)
       IN  /\ r.ptr # NULL => Cardinality(live) < MaxLive
           /\ list_heads' = r.heads
           /\ nodes' = r.nodes
           /\ holes' = r.holes
           /\ live' = IF r.ptr = NULL THEN live
                      ELSE live \cup {[ptr |-> r.ptr, size |-> size, align |-> align]}
           /\ last' = [op |-> "alloc", size |-> size, align |-> align,
                       ptr |-> r.ptr, fb |-> r.fb, cap |-> Capacity(holes),
                       panic |-> FALSE]
           /\ hist' = HistAfter(size, align, "alloc", r.ptr)
    /\ UNCHANGED initialised

\* the caller passes a pointer it holds, with the layout of its allocation
dealloc(a) ==
    /\ ~last.panic
    /\ a \in live
    /\ LET r == dealloc_step(list_heads, nodes, holes, a.ptr, a.size, a.align)
       IN  /\ list_heads' = r.heads
           /\ nodes' = r.nodes
           /\ holes' = r.holes
           /\ live' = live \ {a}
           /\ last' = [op |-> "dealloc", size |-> a.size, align |-> a.align,
                       ptr |-> a.ptr, fb |-> r.fb, cap |-> Capacity(holes),
                       panic |-> r.panic]
           /\ hist' = HistAfter(a.size, a.align, "dealloc", a.ptr)
    /\ UNCHANGED initialised

Alloc == \E rq \in Requests : alloc(rq[1], rq[2])
Dealloc == \E a \in live : dealloc(a)

(***************************************************************************)
(* Specification of the block allocator: the allocator is created empty,   *)
(* initialised once by init_heap, and then serves alloc and dealloc calls, *)
(* one at a time under its lock.                                           *)
(***************************************************************************)
NotCalled == [called |-> FALSE, index |-> None]

FrameIdle ==
    /\ memory_map = <<>>
    /\ next = 0
    /\ issued = <<>>
    /\ frame_last = None

IndexIdle ==
    /\ li_layout = <<0, 1>>
    /\ li_result = NotCalled

NotRun == [frame_allocator |-> 0, heap_mapping |-> 0, allocator_init |-> 0]
NoTranslate == [called |-> FALSE, high |-> 0, low |-> 0, result |-> None, panic |-> FALSE]

\* the boot flow is not part of the specification
BootIdle ==
    /\ pc = "off"
    /\ interrupts_enabled = FALSE
    /\ cr3 = 0
    /\ tables = {}
    /\ mapper = None
    /\ heap_index = 0
    /\ mapped = <<>>
    /\ heap_error = "none"
    /\ heap_result = "none"
    /\ ran = NotRun
    /\ tr = NoTranslate
    /\ irq_in_init = FALSE
    /\ heap_info = None

\* the executor is not part of the specification
ExecIdle == exec = <<>>

\* neither the executor's loop, the keyboard task nor the character buffer
\* is part of the specification
TaskIdle ==
    /\ executor = <<>>
    /\ keys = <<>>
    /\ writer = <<>>

\* neither the keyboard queue nor the screen is part of the specification
IoIdle ==
    /\ kbd = <<>>
    /\ vga = <<>>
    /\ TaskIdle

\* no caller contends for the allocator
LockIdle ==
    /\ lock = 0
    /\ callers = <<>>
    /\ serial = <<>>

InitA == InitAlloc /\ FrameIdle /\ IndexIdle /\ BootIdle /\ LockIdle /\ ExecIdle /\ IoIdle

NextA ==
    \/ init_heap /\ UNCHANGED <<frameVars, indexVars, bootVars, lockVars, exec, ioVars>>
    \/ Alloc /\ UNCHANGED <<frameVars, indexVars, bootVars, lockVars, exec, ioVars>>
    \/ Dealloc /\ UNCHANGED <<frameVars, indexVars, bootVars, lockVars, exec, ioVars>>

SpecAlloc == InitA /\ [][NextA]_vars

AllocIdle == InitAlloc

(***************************************************************************)
(* Specification of list_index alone: any layout with a size up to         *)
(* MaxReqSize and a power-of-two alignment up to 2^MaxAlignLog.            *)
(***************************************************************************)
Layouts == { <<size, Pow2(k)>> : size \in 0 .. MaxReqSize, k \in 0 .. MaxAlignLog }

InitI ==
    /\ li_layout \in Layouts
    /\ li_result = NotCalled
    /\ AllocIdle
    /\ FrameIdle
    /\ BootIdle
    /\ LockIdle
    /\ ExecIdle
    /\ IoIdle

CallListIndex ==
    /\ ~li_result.called
    /\ li_result' = [called |-> TRUE, index |-> list_index(li_layout[1], li_layout[2])]
    /\ UNCHANGED li_layout

NextI == CallListIndex /\ UNCHANGED <<allocVars, frameVars, bootVars, lockVars, exec, ioVars>>

SpecIndex == InitI /\ [][NextI]_vars

(***************************************************************************)
(* Specification of dealloc on any layout: a block at the start of the     *)
(* heap, handed out for a layout with a size up to MaxReqSize and a        *)
(* power-of-two alignment up to 2^MaxAlignLog, is freed into an allocator  *)
(* whose free lists are empty.                                             *)
(***************************************************************************)
InitN ==
    /\ li_layout \in Layouts
    /\ li_result = NotCalled
    /\ AllocIdle
    /\ FrameIdle
    /\ BootIdle
    /\ LockIdle
    /\ ExecIdle
    /\ IoIdle

CallDealloc ==
    /\ ~li_result.called
    /\ LET r == dealloc_step([i \in ClassIndexes |-> NULL], <<>>, heap_empty,
                             HEAP_START, li_layout[1], li_layout[2])
       IN  li_result' = [called |-> TRUE,
                         index |-> list_index(li_layout[1], li_layout[2]),
                         panic |-> r.panic, heads |-> r.heads]
    /\ UNCHANGED li_layout

NextN == CallDealloc /\ UNCHANGED <<allocVars, frameVars, bootVars, lockVars, exec, ioVars>>

SpecNode == InitN /\ [][NextN]_vars

(***************************************************************************)
(* The frame allocator.  A memory map is a sequence of regions, each a     *)
(* range of frame numbers [start, end) and a flag for MemoryRegionType::   *)
(* Usable; the regions of a map do not overlap.                            *)
(***************************************************************************)
start_addr(r) == r.start * PAGE_SIZE
end_addr(r) == r.end * PAGE_SIZE

\* PhysFrame::containing_address
containing_address(addr) == (addr \div PAGE_SIZE) * PAGE_SIZE

\* a slip: the range includes its end address
RECURSIVE step_by_frames_inclusive(_, _)
step_by_frames_inclusive(from, to) ==
    IF from > to THEN <<>>
    ELSE <<containing_address(from)>> \o step_by_frames_inclusive(from + PAGE_SIZE, to)

\* (start..end).step_by(4096), each address turned into its frame
RECURSIVE step_by_frames(_, _)
step_by_frames(from, to) ==
    IF from >= to THEN <<>>
    ELSE <<containing_address(from)>> \o step_by_frames(from + PAGE_SIZE, to)

\* a slip: the region type is not looked at
RECURSIVE useable_frames_unfiltered(_)
useable_frames_unfiltered(map) ==
    IF map = <<>> THEN <<>>
    ELSE step_by_frames(start_addr(Head(map)), end_addr(Head(map)))
         \o useable_frames_unfiltered(Tail(map))

RECURSIVE useable_frames(_)
useable_frames(map) ==
    IF map = <<>> THEN <<>>
    ELSE LET r == Head(map)
         IN  (IF r.usable THEN step_by_frames(start_addr(r), end_addr(r)) ELSE <<>>)
             \o useable_frames(Tail(map))

\* Iterator::nth, counting from 0
nth(s, n) == IF n < Len(s) THEN Some(s[n + 1]) ELSE None

Regions == { r \in [start : 0 .. MaxFrameNo, end : 0 .. MaxFrameNo, usable : BOOLEAN] :
                r.start <= r.end }

Disjoint(r1, r2) == r1.end <= r2.start \/ r2.end <= r1.start

MemoryMaps ==
    UNION { { m \in [1 .. n -> Regions] :
                \A i, j \in 1 .. n : i < j => Disjoint(m[i], m[j]) } :
            n \in 0 .. MaxRegions }

\* BootInfoFrameAllocator::init
InitF ==
    /\ memory_map \in MemoryMaps
    /\ next = 0
    /\ issued = <<>>
    /\ frame_last = None
    /\ AllocIdle
    /\ IndexIdle
    /\ BootIdle
    /\ LockIdle
    /\ ExecIdle
    /\ IoIdle

\* a slip: the cursor wraps round to the first frame when it runs off the end
allocate_frame_step_wraps(map, nxt) ==
    LET frames == useable_frames(map)
    IN  [frame |-> IF frames = <<>> THEN None ELSE nth(frames, nxt % Len(frames)),
         next |-> nxt + 1]

\* a slip: the cursor stays where it is, every call returns the same frame
allocate_frame_step_keeps_next(map, nxt) ==
    LET frame == nth(useable_frames(map), nxt)
    IN  [frame |-> frame, next |-> nxt]

\* BootInfoFrameAllocator::allocate_frame: the frame returned and the new cursor
allocate_frame_step(map, nxt) ==
    LET frame == nth(useable_frames(map), nxt)
    IN  [frame |-> frame, next |-> nxt + 1]

allocate_frame_call ==
    LET r == allocate_frame_step(memory_map, next)
    IN  /\ frame_last' = r.frame
        /\ issued' = issued \o r.frame
        /\ next' = r.next
        /\ UNCHANGED memory_map

allocate_frame ==
    /\ next < MaxCalls
    /\ allocate_frame_call

NextF == allocate_frame /\ UNCHANGED <<allocVars, indexVars, bootVars, lockVars, exec, ioVars>>

SpecFrame == InitF /\ [][NextF]_vars

(***************************************************************************)
(* Notions the properties are stated in, taken from the size-class table   *)
(* and the allocator state, not from list_index.                           *)
(***************************************************************************)
LargestClass == BlockSize(Len(BLOCK_SIZES) - 1)

\* the smallest class that holds a request, if any
ClassFor(size, align) ==
    LET required == Max(size, align)
        fitting == { c \in ClassIndexes : BlockSize(c) >= required }
    IN  IF fitting = {} THEN None
        ELSE Some(CHOOSE c \in fitting : \A d \in fitting : c <= d)

\* the bytes of the block that serves a request
BlockLen(size, align) ==
    LET c == ClassFor(size, align)
    IN  IF c = None THEN size ELSE BlockSize(c[1])

\* the layout asked of the fallback allocator when the free list cannot serve
Needed(size, align) ==
    LET c == ClassFor(size, align)
    IN  IF c = None THEN <<size, align>> ELSE <<BlockSize(c[1]), BlockSize(c[1])>>

RECURSIVE ChainFrom(_, _)
ChainFrom(p, fuel) ==
    IF p = NULL \/ fuel = 0 THEN <<>>
    ELSE IF p \notin DOMAIN nodes THEN <<p>>
    ELSE <<p>> \o ChainFrom(nodes[p], fuel - 1)

\* the free list of a class, head first
free_list(c) == ChainFrom(list_heads[c], Cardinality(DOMAIN nodes) + 1)

Range(s) == { s[i] : i \in 1 .. Len(s) }

\* byte ranges [from, to)
Extent(from, len) == [from |-> from, to |-> from + len]
Overlap(e1, e2) == e1.from < e2.to /\ e2.from < e1.to

LiveExtent(a) == Extent(a.ptr, a.size)
LiveBlock(a) == Extent(a.ptr, BlockLen(a.size, a.align))
FreeBlocks == UNION { { Extent(p, BlockSize(c)) : p \in Range(free_list(c)) } :
                      c \in ClassIndexes }
HoleExtents == { Extent(holes[i].addr, holes[i].size) : i \in 1 .. Len(holes) }

CanSupply(hs, layout) == \E i \in 1 .. Len(hs) : HoleFits(hs[i], layout[1], layout[2])

\* the step just taken is an alloc / a dealloc call
AllocCall == last'.op = "alloc"
DeallocCall == last'.op = "dealloc"
SameLayout(c1, c2) == c1.size = c2.size /\ c1.align = c2.align

(***************************************************************************)
(* Properties                                                              *)
(***************************************************************************)

\* C1: for a layout with max(size, align) <= 2048, list_index selects a class
\* c of the table with c >= max(size, align) and no smaller class of the
\* table is large enough; for max(size, align) > 2048 it selects no class.
ListIndexSelectsSmallestClass ==
    li_result.called =>
        LET required == Max(li_layout[1], li_layout[2])
            r == li_result.index
        IN  IF required <= LargestClass
            THEN /\ r # None
                 /\ r[1] \in ClassIndexes
                 /\ BlockSize(r[1]) >= required
                 /\ \A d \in ClassIndexes : BlockSize(d) >= required => d >= r[1]
            ELSE r = None

\* the alignment decides the class: (20, 64) is served by class 64
ListIndexByAlignment ==
    /\ li_result.called
    /\ li_layout = <<20, 64>>
    /\ li_result.index = Some(3)

\* C2: no two live allocations overlap, and no live allocation overlaps a
\* block of a size-class free list or a free region of the fallback allocator.
NoLiveOverlap ==
    /\ \A a, b \in live : a # b => ~Overlap(LiveExtent(a), LiveExtent(b))
    /\ \A a \in live : \A f \in FreeBlocks : ~Overlap(LiveExtent(a), f)
    /\ \A a \in live : \A h \in HoleExtents : ~Overlap(LiveExtent(a), h)

\* two allocations are live next to a free-list block and a free region,
\* after blocks were freed and allocated again
TwoLiveBesideFreeBlocks ==
    /\ Cardinality(live) = 2
    /\ FreeBlocks # {}
    /\ holes # <<>>
    /\ last.op = "alloc"
    /\ last.fb = None

\* C3: an alloc of class c whose latest preceding call of class c was the
\* dealloc of a block returns that block's address and does not call the
\* fallback allocator.
ReuseAfterFree ==
    [][\A c \in ClassIndexes :
          (AllocCall /\ ClassFor(last'.size, last'.align) = Some(c)
                     /\ hist[c].op = "dealloc")
          => (last'.ptr = hist[c].ptr /\ last'.ptr # NULL /\ last'.fb = None)]_vars

\* the block freed as (24, 8) came back for (20, 4) while another class was
\* used in between
ReusedForOtherLayout ==
    /\ last.op = "alloc"
    /\ SameLayout(last, [size |-> 20, align |-> 4])
    /\ last.fb = None
    /\ last.ptr # NULL
    /\ \E c \in ClassIndexes : c # 2 /\ hist[c].op # "none"

\* C4: an alloc that needs the fallback allocator for more than it can supply
\* returns null and changes neither a free-list head nor anything else of the
\* allocator, so the same call repeated returns null again.
ExhaustionIsDeterministic ==
    [][AllocCall =>
          LET c == ClassFor(last'.size, last'.align)
              listEmpty == c = None \/ list_heads[c[1]] = NULL
          IN  /\ (listEmpty /\ ~CanSupply(holes, Needed(last'.size, last'.align)))
                    => last'.ptr = NULL
              /\ last'.ptr = NULL
                    => /\ list_heads' = list_heads
                       /\ nodes' = nodes
                       /\ holes' = holes
                       /\ live' = live
              /\ (last.op = "alloc" /\ last.ptr = NULL /\ SameLayout(last, last'))
                    => last'.ptr = NULL]_vars

\* a class request failed on an initialised heap that has more free bytes
\* than the caller asked for, the free list of another class being non-empty
ClassRequestExhausted ==
    /\ last.op = "alloc"
    /\ last.ptr = NULL
    /\ initialised
    /\ ClassFor(last.size, last.align) # None
    /\ Capacity(holes) >= last.size
    /\ \E c \in ClassIndexes : list_heads[c] # NULL

\* C5: every live allocation lies inside [HEAP_START, HEAP_START + HEAP_SIZE),
\* and the allocator manages exactly that window: the free regions lie in it
\* and free regions, free-list blocks and live blocks add up to HEAP_SIZE.
InsideHeapWindow ==
    /\ \A a \in live : HEAP_START <= a.ptr /\ a.ptr + a.size <= HEAP_START + HEAP_SIZE
    /\ (last.op = "alloc" /\ last.ptr # NULL)
          => HEAP_START <= last.ptr /\ last.ptr + last.size <= HEAP_START + HEAP_SIZE
    /\ \A h \in HoleExtents : HEAP_START <= h.from /\ h.to <= HEAP_START + HEAP_SIZE
    /\ initialised =>
          LET blocks == FreeBlocks \cup { LiveBlock(a) : a \in live } \cup HoleExtents
              RECURSIVE Sum(_)
              Sum(S) == IF S = {} THEN 0
                        ELSE LET e == CHOOSE x \in S : TRUE
                             IN  (e.to - e.from) + Sum(S \ {e})
          IN  Sum(blocks) = HEAP_SIZE

\* the heap is used up to its last byte
HeapUsedToTheEnd ==
    /\ holes = <<>>
    /\ \E a \in live : a.ptr + BlockLen(a.size, a.align) = HEAP_START + HEAP_SIZE

\* C6: every live pointer is a multiple of its align and heads a block of at
\* least size bytes that nothing else shares: for a request of class c the
\* block is aligned to c and its c bytes overlap no other live block, no
\* free-list block and no free region.
AlignedExclusiveBlocks ==
    \A a \in live :
        /\ a.ptr # NULL
        /\ a.ptr % a.align = 0
        /\ BlockLen(a.size, a.align) >= a.size
        /\ ClassFor(a.size, a.align) # None => a.ptr % BlockLen(a.size, a.align) = 0
        /\ \A b \in live : a # b => ~Overlap(LiveBlock(a), LiveBlock(b))
        /\ \A f \in FreeBlocks : ~Overlap(LiveBlock(a), f)
        /\ \A h \in HoleExtents : ~Overlap(LiveBlock(a), h)

\* a block popped from the free list serves a request whose alignment is
\* larger than its size, next to another live allocation
PoppedBlockAligned ==
    /\ last.op = "alloc"
    /\ last.fb = None
    /\ SameLayout(last, [size |-> 16, align |-> 2048])
    /\ last.ptr # HEAP_START
    /\ Cardinality(live) = 2

\* C7: in a run of alloc and dealloc of one class-sized layout, an alloc that
\* follows the dealloc succeeds, and neither it nor the dealloc changes the
\* free capacity of the fallback allocator.
RepeatedBoxNeverFails ==
    [][/\ (DeallocCall /\ ClassFor(last'.size, last'.align) # None)
            => Capacity(holes') = Capacity(holes)
       /\ (AllocCall /\ last.op = "dealloc" /\ SameLayout(last, last')
                     /\ ClassFor(last'.size, last'.align) # None)
            => (last'.ptr # NULL /\ Capacity(holes') = Capacity(holes))]_vars

\* the alloc of the second iteration succeeded with the heap otherwise full
SecondIterationOnFullHeap ==
    /\ last.op = "alloc"
    /\ last.ptr # NULL
    /\ last.fb = None
    /\ ~CanSupply(holes, Needed(last.size, last.align))

\* C8: an alloc with max(size, align) > 2048 asks the fallback allocator for
\* exactly (size, align) and leaves every free list as it was, whether or not
\* the fallback allocator succeeds.
LargeAllocGoesToFallback ==
    [][(AllocCall /\ Max(last'.size, last'.align) > LargestClass)
          => /\ last'.fb = Some(<<last'.size, last'.align>>)
             /\ list_heads' = list_heads
             /\ nodes' = nodes]_vars

\* alloc(4096, 4096) was served while a free list was non-empty
LargeAllocServed ==
    /\ last.op = "alloc"
    /\ SameLayout(last, [size |-> 4096, align |-> 4096])
    /\ last.ptr # NULL
    /\ \E c \in ClassIndexes : list_heads[c] # NULL

\* C9: a dealloc with max(size, align) > 2048 hands the pointer and its
\* layout to the fallback allocator and changes no free list; when it directly
\* follows the alloc of that block, the free capacity of the fallback
\* allocator is again what it was before the alloc.
LargeDeallocRestoresFallback ==
    [][(DeallocCall /\ Max(last'.size, last'.align) > LargestClass)
          => /\ last'.fb = Some(<<last'.ptr, last'.size, last'.align>>)
             /\ list_heads' = list_heads
             /\ nodes' = nodes
             /\ Capacity(holes') = Capacity(holes) + last'.size
             /\ (last.op = "alloc" /\ last.ptr = last'.ptr /\ SameLayout(last, last'))
                   => Capacity(holes') = last.cap]_vars

\* a large block was released between two free regions, a free list being
\* non-empty
LargeDeallocCoalesced ==
    /\ last.op = "dealloc"
    /\ SameLayout(last, [size |-> 4096, align |-> 4096])
    /\ Len(holes) = 1
    /\ holes[1].addr < last.ptr
    /\ holes[1].addr + holes[1].size > last.ptr + last.size
    /\ \E c \in ClassIndexes : list_heads[c] # NULL

\* C25: an alloc that selects class c while c's free list is empty asks the
\* fallback allocator for one block of size c and alignment c, whatever the
\* caller's layout is (32 and 32 for a request of 24 bytes aligned to 8); it
\* returns the block the fallback allocator cut from a free region, or null
\* when it has none, and leaves every free list as it was, c's one empty.
FreshBlockHasClassLayout ==
    [][\A c \in ClassIndexes :
          (AllocCall /\ ClassFor(last'.size, last'.align) = Some(c)
                     /\ list_heads[c] = NULL)
          => /\ last'.fb = Some(<<BlockSize(c), BlockSize(c)>>)
             /\ SameLayout(last', [size |-> 24, align |-> 8]) => last'.fb = Some(<<32, 32>>)
             /\ last'.ptr = NULL <=> ~CanSupply(holes, <<BlockSize(c), BlockSize(c)>>)
             /\ last'.ptr # NULL =>
                   /\ last'.ptr % BlockSize(c) = 0
                   /\ \E h \in HoleExtents :
                         h.from <= last'.ptr /\ last'.ptr + BlockSize(c) <= h.to
                   /\ \A h \in HoleExtents' :
                         ~Overlap(h, Extent(last'.ptr, BlockSize(c)))
                   /\ Capacity(holes') = Capacity(holes) - BlockSize(c)
             /\ list_heads' = list_heads
             /\ list_heads'[c] = NULL
             /\ nodes' = nodes]_vars

\* alloc(24, 8) got a fresh block of 32 bytes while the free list of
\* another class held a block
FreshBlockBesideFreeList ==
    /\ last.op = "alloc"
    /\ SameLayout(last, [size |-> 24, align |-> 8])
    /\ last.fb = Some(<<32, 32>>)
    /\ last.ptr # NULL
    /\ list_heads[2] = NULL
    /\ \E c \in ClassIndexes : list_heads[c] # NULL

\* C26: an alloc that selects class c while c's free list is non-empty
\* returns the address of the head node and makes the node's successor the
\* head of c; it does not call the fallback allocator, whose free regions
\* stay as they are, and the free list of every other class stays as it is.
PopReturnsHead ==
    [][\A c \in ClassIndexes :
          (AllocCall /\ ClassFor(last'.size, last'.align) = Some(c)
                     /\ list_heads[c] # NULL)
          => /\ last'.ptr = list_heads[c]
             /\ list_heads'[c] = nodes[list_heads[c]]
             /\ last'.fb = None
             /\ holes' = holes
             /\ \A d \in ClassIndexes \ {c} :
                   /\ list_heads'[d] = list_heads[d]
                   /\ \A p \in Range(free_list(d)) : nodes'[p] = nodes[p]]_vars

\* the head of a list of two blocks was popped while the list of another
\* class held a block: the second block is the head now
PoppedFromListOfTwo ==
    /\ last.op = "alloc"
    /\ last.fb = None
    /\ last.ptr # NULL
    /\ \E c \in ClassIndexes :
          /\ ClassFor(last.size, last.align) = Some(c)
          /\ list_heads[c] # NULL
          /\ \E d \in ClassIndexes \ {c} : list_heads[d] # NULL

\* C27: a dealloc of a block of class c writes a node at the freed address
\* whose next is the previous head of c and makes it the head, so the freed
\* address is put in front of c's free list; an alloc of class c takes the
\* front of the list, and no call of another class changes the list.  The
\* list is a stack: blocks freed as A1 .. An come back as An .. A1.
FreeListIsLifo ==
    [][\A c \in ClassIndexes :
          /\ (DeallocCall /\ ClassFor(last'.size, last'.align) = Some(c))
                => /\ list_heads'[c] = last'.ptr
                   /\ nodes'[last'.ptr] = list_heads[c]
                   /\ free_list(c)' = <<last'.ptr>> \o free_list(c)
          /\ (AllocCall /\ ClassFor(last'.size, last'.align) = Some(c)
                        /\ free_list(c) # <<>>)
                => /\ last'.ptr = Head(free_list(c))
                   /\ free_list(c)' = Tail(free_list(c))
          /\ ((AllocCall \/ DeallocCall) /\ ClassFor(last'.size, last'.align) # Some(c))
                => free_list(c)' = free_list(c)]_vars

\* two blocks of one class have been freed and not allocated again, the
\* second one just now, and another class has been used as well
TwoFreedInARow ==
    /\ last.op = "dealloc"
    /\ \E c \in ClassIndexes :
          /\ ClassFor(last.size, last.align) = Some(c)
          /\ Len(free_list(c)) = 2
          /\ free_list(c)[1] = last.ptr
          /\ \E d \in ClassIndexes \ {c} : hist[d].op # "none"

\* the blocks that serve a size class, each with its class: those handed
\* out for a layout of the class and those waiting in the class's free list
ClassBlocks ==
    UNION { { <<p, c>> : p \in Range(free_list(c)) } : c \in ClassIndexes }
    \cup { <<a.ptr, ClassFor(a.size, a.align)[1]>> :
              a \in { b \in live : ClassFor(b.size, b.align) # None } }

\* C28: a block that serves size class c serves class c after every call:
\* it is handed out for a layout of class c or waits in c's free list and
\* in no other.  It never lies in a free region of the fallback allocator,
\* it is returned only for requests of class c, and a class-sized dealloc
\* leaves the free regions of the fallback allocator as they are.
ClassBlocksStayInClass ==
    [][/\ ClassBlocks \subseteq ClassBlocks'
       /\ \A b \in ClassBlocks' :
             /\ \A d \in ClassIndexes \ {b[2]} : b[1] \notin Range(free_list(d))'
             /\ \A h \in HoleExtents' : ~Overlap(h, Extent(b[1], BlockSize(b[2])))
       /\ \A b \in ClassBlocks :
             (AllocCall /\ last'.ptr = b[1])
                => ClassFor(last'.size, last'.align) = Some(b[2])
       /\ (DeallocCall /\ ClassFor(last'.size, last'.align) # None)
             => (holes' = holes /\ last'.fb = None)]_vars

\* a 2048-byte block asked for with (16, 2048) waits in the free list of
\* class 2048 while the fallback allocator cannot serve a request for 4096
\* bytes that the block's bytes would make room for
BlockKeptFromFallback ==
    /\ last.op = "dealloc"
    /\ SameLayout(last, [size |-> 16, align |-> 2048])
    /\ list_heads[8] = last.ptr
    /\ ~CanSupply(holes, <<4096, 4096>>)
    /\ CanSupply(deallocate(holes, last.ptr, 2048), <<4096, 4096>>)

\* C29: a free-list node needs 8 bytes aligned to 8, which is no more than
\* the block size of any class of the table, the smallest class of 8 bytes
\* included; so a dealloc of a class-sized layout passes both assertions,
\* does not abort, and links the block into the list of its class.
NodeFitsEveryClass ==
    /\ \A c \in ClassIndexes : 8 <= BlockSize(c)
    /\ \E c \in ClassIndexes : BlockSize(c) = 8
    /\ (li_result.called /\ Max(li_layout[1], li_layout[2]) <= LargestClass)
          => /\ ~li_result.panic
             /\ \E c \in ClassIndexes :
                   /\ BlockSize(c) >= Max(li_layout[1], li_layout[2])
                   /\ li_result.heads[c] = HEAP_START

\* a block of 8 bytes aligned to 8 was freed into the smallest class
FreedIntoSmallestClass ==
    /\ li_result.called
    /\ li_layout = <<8, 8>>
    /\ ~li_result.panic
    /\ li_result.heads[0] = HEAP_START

\* C10: every frame returned by allocate_frame is 4096-byte aligned, lies in
\* a usable region of the memory map, and differs from every frame returned
\* before.
FramesUsableAndDistinct ==
    /\ \A i \in 1 .. Len(issued) :
          /\ issued[i] % PAGE_SIZE = 0
          /\ \E k \in 1 .. Len(memory_map) :
                /\ memory_map[k].usable
                /\ start_addr(memory_map[k]) <= issued[i]
                /\ issued[i] + PAGE_SIZE <= end_addr(memory_map[k])
    /\ \A i, j \in 1 .. Len(issued) : i < j => issued[i] # issued[j]

\* frames were taken from two usable regions with an unusable one between
FramesFromTwoRegions ==
    /\ Len(memory_map) = 3
    /\ memory_map[1].usable /\ ~memory_map[2].usable /\ memory_map[3].usable
    /\ memory_map[2].start < memory_map[2].end
    /\ Len(issued) >= 3
    /\ \E i \in 1 .. Len(issued) : issued[i] < start_addr(memory_map[2])
    /\ \E i \in 1 .. Len(issued) : issued[i] >= end_addr(memory_map[2])
    /\ frame_last = None

(***************************************************************************)
(* Specification of the frame allocator on the maps of the frame           *)
(* uniqueness scenario: one usable region of ScenarioFrames frames, alone  *)
(* or with one more region, usable or not, listed before or after it.      *)
(***************************************************************************)
ScenarioRegion(s) == [start |-> s, end |-> s + ScenarioFrames, usable |-> TRUE]

SideRegions(s) ==
    { [start |-> 0, end |-> e, usable |-> u] : e \in 0 .. s, u \in BOOLEAN }

ScenarioMaps ==
    UNION { { <<ScenarioRegion(s)>> }
            \cup { <<r, ScenarioRegion(s)>> : r \in SideRegions(s) }
            \cup { <<ScenarioRegion(s), r>> : r \in SideRegions(s) } :
            s \in 0 .. MaxScenarioStart }

ScenarioCalls == ScenarioFrames + MaxScenarioStart + 2

InitS ==
    /\ memory_map \in ScenarioMaps
    /\ next = 0
    /\ issued = <<>>
    /\ frame_last = None
    /\ AllocIdle
    /\ IndexIdle
    /\ BootIdle
    /\ LockIdle
    /\ ExecIdle
    /\ IoIdle

allocate_frame_scenario ==
    /\ next < ScenarioCalls
    /\ allocate_frame_call

NextS == allocate_frame_scenario /\ UNCHANGED <<allocVars, indexVars, bootVars, lockVars, exec, ioVars>>

SpecFrameScenario == InitS /\ [][NextS]_vars

(***************************************************************************)
(* The frame sequence as the memory map defines it, region by region.      *)
(***************************************************************************)
UsableLen(map, i) == IF map[i].usable THEN map[i].end - map[i].start ELSE 0

RECURSIVE UsableBefore(_, _)
UsableBefore(map, i) ==
    IF i <= 1 THEN 0 ELSE UsableBefore(map, i - 1) + UsableLen(map, i - 1)

TotalUsable(map) == UsableBefore(map, Len(map) + 1)

\* the k-th usable frame of the map, counting from 0
ExpectedNth(map, k) ==
    LET holding == { i \in 1 .. Len(map) :
                        /\ UsableBefore(map, i) <= k
                        /\ k < UsableBefore(map, i) + UsableLen(map, i) }
    IN  IF holding = {} THEN None
        ELSE LET i == CHOOSE i \in holding : TRUE
             IN  Some((map[i].start + (k - UsableBefore(map, i))) * PAGE_SIZE)

\* C11: once the cursor has reached the number of usable frames, a call
\* returns no frame, and it completes by moving the cursor on; after a call
\* that returned no frame no later call returns one.
FrameExhaustionIsFinal ==
    [][/\ next >= TotalUsable(memory_map)
            => (frame_last' = None /\ issued' = issued /\ next' = next + 1)
       /\ (next > 0 /\ frame_last = None) => frame_last' = None]_vars

\* two calls in a row found the map exhausted after frames had been issued
ExhaustedTwice ==
    /\ Len(issued) >= 2
    /\ next >= Len(issued) + 2
    /\ frame_last = None

\* C12: call number k, counting from 0, returns the k-th frame of the usable
\* regions taken in map order and moves the cursor by one; when the map has
\* one usable region of ScenarioFrames frames, the first ScenarioFrames calls
\* return addresses 4096 bytes apart and every later one returns nothing.
KthCallReturnsKthFrame ==
    [][/\ next' = next + 1
       /\ frame_last' = ExpectedNth(memory_map, next)
       /\ issued' = issued \o frame_last'
       /\ (\A i \in 1 .. Len(memory_map) :
              memory_map[i].usable =>
                 memory_map[i].end - memory_map[i].start \in {0, ScenarioFrames})
            => /\ Len(issued') = IF next' <= ScenarioFrames THEN next' ELSE ScenarioFrames
               /\ \A i \in 1 .. Len(issued') - 1 : issued'[i + 1] = issued'[i] + PAGE_SIZE
               /\ \A i, j \in 1 .. Len(issued') : i < j => issued'[i] # issued'[j]
               /\ next' > ScenarioFrames => frame_last' = None]_vars

\* call number ScenarioFrames + 1 reported exhaustion on a map whose usable
\* region follows an unusable one
ScenarioExhausted ==
    /\ next = ScenarioFrames + 1
    /\ frame_last = None
    /\ Len(issued) = ScenarioFrames
    /\ Len(memory_map) = 2
    /\ ~memory_map[1].usable
    /\ memory_map[1].end > 0

(***************************************************************************)
(* Paging.  A virtual address is held as its bits 32..47 (high) and its    *)
(* bits 0..31 (low); the model uses addresses whose bit 31 is clear.  A    *)
(* frame is named by its start address.  The page tables are the set of    *)
(* their present entries.                                                  *)
(***************************************************************************)
HEAP_START_HIGH == 17476

VirtAddr(high, low) == [high |-> high, low |-> low]

p4_index(addr) == (addr.high \div 128) % 512
p3_index(addr) == (addr.high % 128) * 4 + ((addr.low \div 1073741824) % 4)
p2_index(addr) == (addr.low \div 2097152) % 512
p1_index(addr) == (addr.low \div PAGE_SIZE) % 512
page_offset(addr) == addr.low % PAGE_SIZE

Entry(tbl, table, index) == { e \in tbl : e.table = table /\ e.index = index }

\* PageTableEntry::frame
entry_frame(tbl, table, index) ==
    LET es == Entry(tbl, table, index)
    IN  IF es = {} THEN [err |-> "FrameNotPresent", frame |-> 0]
        ELSE LET e == CHOOSE e \in es : TRUE
             IN  IF e.huge THEN [err |-> "HugeFrame", frame |-> 0]
                 ELSE [err |-> "Ok", frame |-> e.frame]

\* a slip: an entry that maps a huge page counts as absent
RECURSIVE traverse_huge_unmapped(_, _, _)
traverse_huge_unmapped(tbl, frame, table_indexes) ==
    IF table_indexes = <<>> THEN [err |-> "Ok", frame |-> frame]
    ELSE LET entry == entry_frame(tbl, frame, Head(table_indexes))
         IN  IF entry.err = "Ok"
             THEN traverse_huge_unmapped(tbl, entry.frame, Tail(table_indexes))
             ELSE [err |-> "FrameNotPresent", frame |-> 0]

\* the loop of translate_addr_inner over the table indexes
RECURSIVE traverse(_, _, _)
traverse(tbl, frame, table_indexes) ==
    IF table_indexes = <<>> THEN [err |-> "Ok", frame |-> frame]
    ELSE LET entry == entry_frame(tbl, frame, Head(table_indexes))
         IN  IF entry.err = "Ok"
             THEN traverse(tbl, entry.frame, Tail(table_indexes))
             ELSE entry

\* a slip: the level 1 and level 2 indexes change places
translate_addr_inner_swapped(tbl, l4_table_frame, addr) ==
    LET walk == traverse(tbl, l4_table_frame,
                         <<p4_index(addr), p3_index(addr), p1_index(addr), p2_index(addr)>>)
    IN  [panic |-> walk.err = "HugeFrame",
         result |-> IF walk.err = "Ok" THEN Some(walk.frame + page_offset(addr)) ELSE None]

\* translate_addr_inner, with the table-root register's frame handed in
translate_addr_inner(tbl, l4_table_frame, addr) ==
    LET walk == traverse(tbl, l4_table_frame,
                         <<p4_index(addr), p3_index(addr), p2_index(addr), p1_index(addr)>>)
    IN  [panic |-> walk.err = "HugeFrame",
         result |-> IF walk.err = "Ok" THEN Some(walk.frame + page_offset(addr)) ELSE None]

\* the walk of map_to: the tables so far, the cursor of the frame allocator,
\* the frames taken from it, and the table reached
Walk(err, tbl, nxt, got, table) ==
    [err |-> err, tables |-> tbl, next |-> nxt, got |-> got, table |-> table]

\* a missing table is made from the frame f that the frame allocator returned
table_created(tbl, table, index, f) ==
    IF f.frame = None
    THEN Walk("FrameAllocationFailed", tbl, f.next, <<>>, 0)
    ELSE Walk("Ok",
              { e \in tbl : e.table # f.frame[1] }
                 \cup {[table |-> table, index |-> index, frame |-> f.frame[1],
                        huge |-> FALSE]},
              f.next, f.frame, f.frame[1])

\* an entry that is present leads to its table, unless it maps a huge page
table_found(tbl, nxt, e) ==
    IF e.huge THEN Walk("ParentEntryHugePage", tbl, nxt, <<>>, 0)
    ELSE Walk("Ok", tbl, nxt, <<>>, e.frame)

\* the next-level table below an entry, created from a fresh frame if missing
create_next_table(tbl, table, index, map, nxt) ==
    IF Entry(tbl, table, index) = {}
    THEN table_created(tbl, table, index, allocate_frame_step(map, nxt))
    ELSE table_found(tbl, nxt, CHOOSE e \in Entry(tbl, table, index) : TRUE)

after_level(w, r) == [r EXCEPT !.got = w.got \o r.got]

next_level(w, index, map) ==
    IF w.err # "Ok" THEN w
    ELSE after_level(w, create_next_table(w.tables, w.table, index, map, w.next))

set_leaf(w, index, frame) ==
    IF w.err # "Ok" THEN w
    ELSE IF Entry(w.tables, w.table, index) # {}
    THEN [w EXCEPT !.err = "PageAlreadyMapped"]
    ELSE [w EXCEPT !.tables = @ \cup {[table |-> w.table, index |-> index,
                                       frame |-> frame, huge |-> FALSE]}]

\* Mapper::map_to for a 4 KiB page
map_to(tbl, l4_table, page, frame, map, nxt) ==
    set_leaf(next_level(next_level(next_level(Walk("Ok", tbl, nxt, <<>>, l4_table),
                                              p4_index(page), map),
                                   p3_index(page), map),
                        p2_index(page), map),
             p1_index(page), frame)

(***************************************************************************)
(* init_heap: the page range of the heap and one turn of the mapping loop. *)
(***************************************************************************)
\* Page::range_inclusive, as the sequence of the pages' start addresses
range_inclusive(first, final) ==
    [i \in 1 .. (final - first) \div PAGE_SIZE + 1 |-> first + (i - 1) * PAGE_SIZE]

\* a slip: the range stops before the page of the heap's last byte
heap_page_range_exclusive ==
    range_inclusive(containing_address(HEAP_START),
                    containing_address(HEAP_START + HEAP_SIZE - 1) - PAGE_SIZE)

\* a slip: the range runs one page past the page of the heap's last byte
heap_page_range_one_past ==
    range_inclusive(containing_address(HEAP_START),
                    containing_address(HEAP_START + HEAP_SIZE - 1) + PAGE_SIZE)

heap_page_range ==
    range_inclusive(containing_address(HEAP_START),
                    containing_address(HEAP_START + HEAP_SIZE - 1))

\* a slip: the allocator is set up as soon as one page is mapped
loop_done_after_first_page(index) == index >= 1

\* the for loop has taken every page of the range
loop_done(index) == index >= Len(heap_page_range)

\* a slip: the result of map_to is dropped
propagates_frame_errors_only(err) == err = "FrameAllocationFailed"

\* the ? operator: an Err returns from init_heap at once
propagates(err) == err # "Ok"

\* the HeapInfo struct; a Page is named by the virtual address it starts at
HeapInfo(start_virt_addr, start_phys_addr, size) ==
    [start_virt_addr |-> start_virt_addr, start_phys_addr |-> start_phys_addr,
     size |-> size]

\* let heap_start = VirtAddr::new(HEAP_START as u64)
heap_start == VirtAddr(HEAP_START_HIGH, HEAP_START)

\* page_range.start: the range is Copy, the loop runs over a copy of it
page_range_start == VirtAddr(HEAP_START_HIGH, heap_page_range[1])

\* what init_heap returns in Ok
init_heap_ok == HeapInfo(heap_start, page_range_start, HEAP_SIZE)

\* the page is mapped to the frame f that the frame allocator returned
heap_page_mapped(f, m) ==
    [err |-> m.err, tables |-> m.tables, next |-> m.next, got |-> f.frame \o m.got,
     frame |-> f.frame]

heap_page_frame(tbl, l4_table, page, map, f) ==
    IF f.frame = None
    THEN [err |-> "FrameAllocationFailed", tables |-> tbl, next |-> f.next,
          got |-> <<>>, frame |-> None]
    ELSE heap_page_mapped(f, map_to(tbl, l4_table, VirtAddr(HEAP_START_HIGH, page),
                                    f.frame[1], map, f.next))

\* the body of the loop for one page: a frame is requested, then mapped
heap_page_step(tbl, l4_table, page, map, nxt) ==
    heap_page_frame(tbl, l4_table, page, map, allocate_frame_step(map, nxt))

(***************************************************************************)
(* The state the bootloader hands over.  Frames 0 .. FirstUsable - 1 are   *)
(* not usable: among them are the tables the bootloader built.  The        *)
(* kernel's own page is mapped, one 2 MiB huge page lies beside it, and    *)
(* the path to the heap's pages exists down to some level, may end in a    *)
(* huge page, or may already hold a mapping of a heap page.                *)
(***************************************************************************)
BootFrame(n) == n * PAGE_SIZE
BOOT == [l4 |-> BootFrame(1), heap_l3 |-> BootFrame(2), heap_l2 |-> BootFrame(3),
         heap_l1 |-> BootFrame(4), kernel_l3 |-> BootFrame(5),
         kernel_l2 |-> BootFrame(6), kernel_l1 |-> BootFrame(7),
         kernel |-> BootFrame(8), huge |-> BootFrame(9), other |-> BootFrame(10)]
FirstUsable == 11      \* first frame number the bootloader leaves usable

PTE(table, index, frame, huge) ==
    [table |-> table, index |-> index, frame |-> frame, huge |-> huge]

HeapAddr == VirtAddr(HEAP_START_HIGH, HEAP_START)

KernelTables ==
    { PTE(BOOT.l4, 0, BOOT.kernel_l3, FALSE), PTE(BOOT.kernel_l3, 0, BOOT.kernel_l2, FALSE),
      PTE(BOOT.kernel_l2, 0, BOOT.kernel_l1, FALSE), PTE(BOOT.kernel_l1, 1, BOOT.kernel, FALSE),
      PTE(BOOT.kernel_l2, 1, BOOT.huge, TRUE) }

HeapPath(depth) ==
    (IF depth >= 1 THEN { PTE(BOOT.l4, p4_index(HeapAddr), BOOT.heap_l3, FALSE) } ELSE {})
    \cup (IF depth >= 2 THEN { PTE(BOOT.heap_l3, p3_index(HeapAddr), BOOT.heap_l2, FALSE) } ELSE {})
    \cup (IF depth >= 3 THEN { PTE(BOOT.heap_l2, p2_index(HeapAddr), BOOT.heap_l1, FALSE) } ELSE {})

BootTables ==
    { KernelTables \cup HeapPath(depth) : depth \in 0 .. 3 }
    \cup { KernelTables \cup HeapPath(0) \cup { PTE(BOOT.l4, p4_index(HeapAddr), BOOT.huge, TRUE) },
           KernelTables \cup HeapPath(1) \cup { PTE(BOOT.heap_l3, p3_index(HeapAddr), BOOT.huge, TRUE) },
           KernelTables \cup HeapPath(2) \cup { PTE(BOOT.heap_l2, p2_index(HeapAddr), BOOT.huge, TRUE) } }
    \cup { KernelTables \cup HeapPath(3)
              \cup { PTE(BOOT.heap_l1, p1_index(HeapAddr) + k, BOOT.other, FALSE) } :
           k \in 0 .. 2 }
    \cup { { e \in KernelTables : ~e.huge } \cup HeapPath(3) }

BootMaps ==
    { << [start |-> 0, end |-> FirstUsable, usable |-> FALSE],
         [start |-> FirstUsable, end |-> FirstUsable + n, usable |-> TRUE] >> :
      n \in 0 .. MaxBootFrames }

\* the addresses handed to translate_addr
TranslateAddrs ==
    { VirtAddr(HEAP_START_HIGH, HEAP_START + k) :
        k \in { 0, 4095, 4096, HEAP_SIZE - 1, HEAP_SIZE, 3 * PAGE_SIZE } }
    \cup { VirtAddr(0, PAGE_SIZE + 5), VirtAddr(0, 2 * PAGE_SIZE), VirtAddr(0, 2097152),
           VirtAddr(0, 1073741824), VirtAddr(128, PAGE_SIZE + 5) }

BootRequests == { <<24, 8>>, <<4096, 4096>> }

(***************************************************************************)
(* Specification of the boot flow, scos::init: GDT, IDT, PICs and the      *)
(* interrupt flag, the mapper, the frame allocator, then init_heap, one    *)
(* page of its loop at a time.  Once interrupts are enabled the timer      *)
(* handler may run between any two steps.                                  *)
(***************************************************************************)
InitB ==
    /\ pc = "gdt"
    /\ interrupts_enabled = FALSE
    /\ cr3 = BOOT.l4
    /\ tables \in BootTables
    /\ mapper = None
    /\ heap_index = 0
    /\ mapped = <<>>
    /\ heap_error = "none"
    /\ heap_result = "none"
    /\ ran = NotRun
    /\ tr = NoTranslate
    /\ irq_in_init = FALSE
    /\ heap_info = None
    /\ memory_map \in BootMaps
    /\ next = 0
    /\ issued = <<>>
    /\ frame_last = None
    /\ InitAlloc
    /\ IndexIdle
    /\ LockIdle
    /\ ExecIdle
    /\ IoIdle

heapVars == <<tables, mapper, heap_index, mapped, heap_error, heap_result, ran, heap_info>>

gdt_init ==
    /\ pc = "gdt"
    /\ pc' = "idt"
    /\ UNCHANGED <<interrupts_enabled, cr3, heapVars, tr, irq_in_init,
                   allocVars, frameVars>>

init_idt ==
    /\ pc = "idt"
    /\ pc' = "pics"
    /\ UNCHANGED <<interrupts_enabled, cr3, heapVars, tr, irq_in_init,
                   allocVars, frameVars>>

\* PICS.lock().initialize(), then interrupts::enable()
interrupts_enable ==
    /\ pc = "pics"
    /\ interrupts_enabled' = TRUE
    /\ pc' = "mapper"
    /\ UNCHANGED <<cr3, heapVars, tr, irq_in_init, allocVars, frameVars>>

\* active_l4_table: the frame the table-root register names
active_l4_table == cr3

memory_init ==
    /\ pc = "mapper"
    /\ mapper' = Some(active_l4_table)
    /\ pc' = "frame_allocator"
    /\ UNCHANGED <<interrupts_enabled, cr3, tables, heap_index, mapped, heap_error,
                   heap_result, heap_info, ran, tr, irq_in_init, allocVars, frameVars>>

frame_allocator_init ==
    /\ pc = "frame_allocator"
    /\ next' = 0
    /\ ran' = [ran EXCEPT !.frame_allocator = @ + 1]
    /\ pc' = "heap"
    /\ UNCHANGED <<interrupts_enabled, cr3, tables, mapper, heap_index, mapped,
                   heap_error, heap_result, heap_info, tr, irq_in_init, allocVars,
                   memory_map, issued, frame_last>>

\* one turn of the loop of init_heap; an Err leaves through expect("failed")
init_heap_page ==
    /\ pc = "heap"
    /\ ~loop_done(heap_index)
    /\ LET page == heap_page_range[heap_index + 1]
           r == heap_page_step(tables, mapper[1], page, memory_map, next)
       IN  /\ tables' = r.tables
           /\ next' = r.next
           /\ issued' = issued \o r.got
           /\ frame_last' = r.frame
           /\ heap_error' = IF r.err = "Ok" THEN heap_error ELSE r.err
           /\ mapped' = IF r.err = "Ok" THEN Append(mapped, <<page, r.frame[1]>>)
                        ELSE mapped
           /\ IF propagates(r.err)
              THEN /\ heap_result' = r.err
                   /\ pc' = "panicked"
                   /\ UNCHANGED <<heap_index, ran>>
              ELSE /\ heap_index' = heap_index + 1
                   /\ ran' = IF loop_done(heap_index + 1)
                             THEN [ran EXCEPT !.heap_mapping = @ + 1] ELSE ran
                   /\ UNCHANGED <<heap_result, pc>>
    /\ UNCHANGED <<interrupts_enabled, cr3, mapper, tr, irq_in_init, allocVars,
                   memory_map, heap_info>>

\* after the loop: the allocator is given its bounds and init_heap returns Ok
init_heap_allocator ==
    /\ pc = "heap"
    /\ loop_done(heap_index)
    /\ init_heap
    /\ heap_result' = "Ok"
    /\ heap_info' = Some(init_heap_ok)
    /\ ran' = [ran EXCEPT !.allocator_init = @ + 1]
    /\ pc' = "done"
    /\ UNCHANGED <<interrupts_enabled, cr3, tables, mapper, heap_index, mapped,
                   heap_error, tr, irq_in_init, frameVars>>

timer_interrupt_handler ==
    /\ interrupts_enabled
    /\ irq_in_init' = (irq_in_init \/ pc # "done")
    /\ UNCHANGED <<pc, interrupts_enabled, cr3, heapVars, tr, allocVars, frameVars>>

translate_addr(addr) ==
    /\ pc \in {"heap", "done"}
    /\ LET t == translate_addr_inner(tables, cr3, addr)
       IN  /\ tr' = [called |-> TRUE, high |-> addr.high, low |-> addr.low,
                     result |-> t.result, panic |-> t.panic]
           /\ pc' = IF t.panic THEN "panicked" ELSE pc
    /\ UNCHANGED <<interrupts_enabled, cr3, heapVars, irq_in_init, allocVars, frameVars>>

Translate == \E addr \in TranslateAddrs : translate_addr(addr)

BootAlloc ==
    /\ pc # "panicked"
    /\ \E rq \in BootRequests : alloc(rq[1], rq[2])
    /\ UNCHANGED <<bootVars, frameVars>>

NextB ==
    \/ gdt_init /\ UNCHANGED <<indexVars, lockVars, exec, ioVars>>
    \/ init_idt /\ UNCHANGED <<indexVars, lockVars, exec, ioVars>>
    \/ interrupts_enable /\ UNCHANGED <<indexVars, lockVars, exec, ioVars>>
    \/ memory_init /\ UNCHANGED <<indexVars, lockVars, exec, ioVars>>
    \/ frame_allocator_init /\ UNCHANGED <<indexVars, lockVars, exec, ioVars>>
    \/ init_heap_page /\ UNCHANGED <<indexVars, lockVars, exec, ioVars>>
    \/ init_heap_allocator /\ UNCHANGED <<indexVars, lockVars, exec, ioVars>>
    \/ timer_interrupt_handler /\ UNCHANGED <<indexVars, lockVars, exec, ioVars>>
    \/ Translate /\ UNCHANGED <<indexVars, lockVars, exec, ioVars>>
    \/ BootAlloc /\ UNCHANGED <<indexVars, lockVars, exec, ioVars>>

SpecBoot == InitB /\ [][NextB]_vars

(***************************************************************************)
(* Properties of the boot flow                                             *)
(***************************************************************************)
\* heap addresses OffsetStride apart, the last byte of every page of the
\* window and the last byte of the window
WindowAddrs ==
    { HEAP_START + k : k \in { k \in 0 .. HEAP_SIZE - 1 :
                                 \/ k % OffsetStride = 0
                                 \/ k % PAGE_SIZE = PAGE_SIZE - 1
                                 \/ k = HEAP_SIZE - 1 } }

PageOf(a) == a - (a % PAGE_SIZE)

Translation(low) == translate_addr_inner(tables, cr3, VirtAddr(HEAP_START_HIGH, low))

\* the frame init_heap mapped the page to, None if it mapped no frame to it
MappedFrame(page) ==
    LET at == { i \in 1 .. Len(mapped) : mapped[i][1] = page }
    IN  IF at = {} THEN None ELSE Some(mapped[CHOOSE i \in at : TRUE][2])

\* C13: when init_heap has returned Ok, every address of the heap window
\* lies in a page that init_heap mapped, and translating the address gives
\* the start of the frame that page was mapped to plus the page offset.
HeapWindowTranslates ==
    heap_result = "Ok" =>
        \A a \in WindowAddrs :
            /\ MappedFrame(PageOf(a)) # None
            /\ ~Translation(a).panic
            /\ Translation(a).result = Some(MappedFrame(PageOf(a))[1] + (a % PAGE_SIZE))

\* init_heap returned Ok after making two of the three tables on the way,
\* and the last byte of the heap has been translated
HeapLastByteTranslated ==
    /\ heap_result = "Ok"
    /\ Len(issued) = Len(mapped) + 2
    /\ tr.called
    /\ tr.high = HEAP_START_HIGH
    /\ tr.low = HEAP_START + HEAP_SIZE - 1
    /\ tr.result # None

\* C14: when a frame request or a mapping has failed for a heap page,
\* init_heap has returned that error and nothing of it runs again: the
\* tables, the frame cursor and the allocator stay as they are, the pages
\* mapped before still translate to their frames, no later page of the
\* range has been given a frame, and the allocator is still empty.
HeapInitFailsFast ==
    [][heap_error # "none" =>
          /\ heap_result = heap_error
          /\ UNCHANGED <<tables, next, issued, mapped, heap_index, heap_result>>
          /\ ~initialised /\ ~initialised'
          /\ holes = heap_empty /\ holes' = heap_empty
          /\ \A i \in 1 .. Len(mapped) :
                Translation(mapped[i][1]).result = Some(mapped[i][2])
          /\ \A a \in WindowAddrs :
                MappedFrame(PageOf(a)) = None =>
                   \A i \in 1 .. Len(issued) :
                      Translation(PageOf(a)).result # Some(issued[i])]_vars

\* the frames ran out after the first heap page had been mapped, and the
\* kernel went on running its timer handler
FailedAfterFirstPage ==
    /\ heap_error = "FrameAllocationFailed"
    /\ Len(mapped) = 1
    /\ irq_in_init
    /\ last.op = "alloc"

\* the pages of the window, from the window's bounds
WindowPages == { PageOf(a) : a \in WindowAddrs }

\* C15: an allocate call returns a non-null pointer only when init_heap has
\* mapped every page of the heap window, the last one included, and has
\* run the allocator's initializer.
AllocOnlyAfterHeapMapped ==
    [][(AllocCall /\ last'.ptr # NULL) =>
          /\ initialised
          /\ \A page \in WindowPages : MappedFrame(page) # None]_vars

\* an allocate call made while the mapping loop was at its last page
\* returned null
AllocNullDuringMapping ==
    /\ pc = "heap"
    /\ heap_index = Len(heap_page_range) - 1
    /\ last.op = "alloc"
    /\ last.ptr = NULL
    /\ ~initialised

\* C16: the frame allocator's construction, the mapping of the heap pages
\* and the block allocator's bounds setup never run twice, have each run
\* once when the initialisation is over, and have each run once in every
\* state in which interrupts are enabled.
InitOnceBeforeInterrupts ==
    /\ \A k \in DOMAIN ran : ran[k] <= 1
    /\ pc = "done" => \A k \in DOMAIN ran : ran[k] = 1
    /\ interrupts_enabled => \A k \in DOMAIN ran : ran[k] = 1

\* what the walk from the table-root register over the four levels finds
FourLevelWalk(addr) ==
    LET e4 == Entry(tables, cr3, p4_index(addr))
        t3 == (CHOOSE e \in e4 : TRUE).frame
        e3 == Entry(tables, t3, p3_index(addr))
        t2 == (CHOOSE e \in e3 : TRUE).frame
        e2 == Entry(tables, t2, p2_index(addr))
        t1 == (CHOOSE e \in e2 : TRUE).frame
        e1 == Entry(tables, t1, p1_index(addr))
    IN  IF e4 = {} THEN "absent"
        ELSE IF (CHOOSE e \in e4 : TRUE).huge THEN "huge"
        ELSE IF e3 = {} THEN "absent"
        ELSE IF (CHOOSE e \in e3 : TRUE).huge THEN "huge"
        ELSE IF e2 = {} THEN "absent"
        ELSE IF (CHOOSE e \in e2 : TRUE).huge THEN "huge"
        ELSE IF e1 = {} THEN "absent"
        ELSE IF (CHOOSE e \in e1 : TRUE).huge THEN "huge"
        ELSE "mapped"

LeafFrame(addr) ==
    LET e4 == CHOOSE e \in Entry(tables, cr3, p4_index(addr)) : TRUE
        e3 == CHOOSE e \in Entry(tables, e4.frame, p3_index(addr)) : TRUE
        e2 == CHOOSE e \in Entry(tables, e3.frame, p2_index(addr)) : TRUE
        e1 == CHOOSE e \in Entry(tables, e2.frame, p1_index(addr)) : TRUE
    IN  e1.frame

\* C20: translate_addr follows the level 4, 3, 2 and 1 entries of the
\* address from the table the table-root register names; it returns None
\* when the entry of some level is absent, and otherwise the frame of the
\* level 1 entry plus the page offset of the address.
TranslateWalksFourLevels ==
    [][tr' # tr =>
          LET addr == VirtAddr(tr'.high, tr'.low)
          IN  /\ FourLevelWalk(addr) = "absent" => (tr'.result = None /\ ~tr'.panic)
              /\ FourLevelWalk(addr) = "mapped" =>
                    /\ ~tr'.panic
                    /\ tr'.result = Some(LeafFrame(addr) + (tr'.low % PAGE_SIZE))]_vars

\* the first heap page was translated at its last byte while the mapping
\* loop had not reached the last page
HeapByteTranslated ==
    /\ pc = "heap"
    /\ Len(mapped) \in 1 .. 2
    /\ tr.called
    /\ tr.high = HEAP_START_HIGH
    /\ tr.low = HEAP_START + PAGE_SIZE - 1
    /\ tr.result = Some(mapped[1][2] + PAGE_SIZE - 1)

\* the level, counted from 4 down, at which the walk from the table-root
\* register meets a present entry flagged as a huge page; 0 when it meets none
HugeLevel(addr) ==
    LET e4 == Entry(tables, cr3, p4_index(addr))
        t3 == (CHOOSE e \in e4 : TRUE).frame
        e3 == Entry(tables, t3, p3_index(addr))
        t2 == (CHOOSE e \in e3 : TRUE).frame
        e2 == Entry(tables, t2, p2_index(addr))
        t1 == (CHOOSE e \in e2 : TRUE).frame
        e1 == Entry(tables, t1, p1_index(addr))
    IN  IF e4 = {} THEN 0
        ELSE IF (CHOOSE e \in e4 : TRUE).huge THEN 4
        ELSE IF e3 = {} THEN 0
        ELSE IF (CHOOSE e \in e3 : TRUE).huge THEN 3
        ELSE IF e2 = {} THEN 0
        ELSE IF (CHOOSE e \in e2 : TRUE).huge THEN 2
        ELSE IF e1 = {} THEN 0
        ELSE IF (CHOOSE e \in e1 : TRUE).huge THEN 1
        ELSE 0

\* C21: a translate_addr call whose walk meets a huge-page entry at level 3
\* or level 2 panics and returns neither an address nor unmapped; a call
\* whose walk meets no huge-page entry does not panic, so no call panics on
\* tables that hold no huge-page entry.
HugePageTranslationPanics ==
    [][tr' # tr =>
          LET addr == VirtAddr(tr'.high, tr'.low)
          IN  /\ HugeLevel(addr) \in {2, 3}
                    => (tr'.panic /\ tr'.result = None /\ pc' = "panicked")
              /\ HugeLevel(addr) = 0 => (~tr'.panic /\ pc' = pc)
              /\ (\A e \in tables : ~e.huge) => ~tr'.panic]_vars

\* the translation of an address in the 2 MiB huge page beside the kernel
\* panicked after init_heap had mapped the heap
HugePagePanicked ==
    /\ pc = "panicked"
    /\ tr.panic
    /\ tr.high = 0
    /\ tr.low = 2097152
    /\ heap_result = "Ok"

\* a physical address as the 64-bit number it is, split like a virtual one
PhysAddr(a) == VirtAddr(0, a)

\* C22: when init_heap has returned Ok, the HeapInfo it returned holds
\* HEAP_START as its start virtual address, HEAP_SIZE as its size, and as
\* its start physical frame the frame the first heap page was mapped to.
HeapInfoDescribesMapping ==
    heap_result = "Ok" =>
        /\ heap_info # None
        /\ heap_info[1].start_virt_addr = VirtAddr(HEAP_START_HIGH, HEAP_START)
        /\ heap_info[1].size = HEAP_SIZE
        /\ heap_info[1].start_phys_addr = PhysAddr(mapped[1][2])

\* C30: init_heap takes the pages from the page of HEAP_START to the page
\* of HEAP_START + HEAP_SIZE - 1 and no other: the pages it has asked a
\* frame and a mapping for are the first ones of that range in ascending
\* order, each once, all three of them when it returns Ok, and the pages
\* before and after the range are left unmapped.
HeapPagesExactlyTheRange ==
    /\ heap_index <= 3
    /\ Len(mapped) <= heap_index
    /\ heap_index <= Len(mapped) + 1
    /\ \A i \in 1 .. Len(mapped) :
          /\ mapped[i][1] = HEAP_START + (i - 1) * PAGE_SIZE
          /\ HEAP_START - (HEAP_START % PAGE_SIZE) <= mapped[i][1]
          /\ mapped[i][1] <= HEAP_START + HEAP_SIZE - 1
    /\ \A i \in 1 .. Len(mapped) :
          /\ \E k \in 1 .. Len(issued) : issued[k] = mapped[i][2]
          /\ \A j \in 1 .. Len(mapped) : i # j => mapped[i][2] # mapped[j][2]
    /\ heap_result = "Ok" => (Len(mapped) = 3 /\ heap_index = 3)
    /\ (heap_error = "none" /\ pc \in {"heap", "done"}) => Len(mapped) = heap_index
    /\ Translation(HEAP_START + 3 * PAGE_SIZE).result = None
    /\ Translation(HEAP_START - PAGE_SIZE).result = None

\* init_heap returned Ok after mapping three pages with three tables made
\* on the way, and the address after the heap's last page is unmapped
ThreePagesMapped ==
    /\ heap_result = "Ok"
    /\ Len(mapped) = 3
    /\ Len(issued) = 6
    /\ tr.called
    /\ tr.low = HEAP_START + 3 * PAGE_SIZE
    /\ tr.result = None

\* the frames holding the level 3, 2 and 1 tables on the walk to the heap
HeapTableFrames ==
    { w.frame : w \in { w \in { traverse(tables, cr3, <<p4_index(HeapAddr)>>),
                                 traverse(tables, cr3, <<p4_index(HeapAddr),
                                                         p3_index(HeapAddr)>>),
                                 traverse(tables, cr3, <<p4_index(HeapAddr),
                                                         p3_index(HeapAddr),
                                                         p2_index(HeapAddr)>>) } :
                         w.err = "Ok" } }

\* the frames init_heap took from the frame allocator for heap pages
HeapFrames == { mapped[i][2] : i \in 1 .. Len(mapped) }

\* C31: during init_heap no frame is used twice: the frame allocator hands
\* out no frame a second time, the frames mapped to heap pages are pairwise
\* distinct and none of them holds a page table of the walk to the heap or
\* the level 4 table, every other frame taken from the allocator differs
\* from them, and two heap pages never translate to the same frame.
HeapFramesUsedOnce ==
    /\ \A i, j \in 1 .. Len(issued) : i # j => issued[i] # issued[j]
    /\ Cardinality(HeapFrames) = Len(mapped)
    /\ HeapFrames \cap (HeapTableFrames \cup {cr3}) = {}
    /\ \A f \in HeapTableFrames :
          (\E k \in 1 .. Len(issued) : issued[k] = f) => f \notin HeapFrames
    /\ Cardinality({ k \in 1 .. Len(issued) : issued[k] \in HeapFrames }) = Len(mapped)
    /\ \A p, q \in { heap_page_range[i] : i \in 1 .. Len(heap_page_range) } :
          (p # q /\ Translation(p).result # None)
             => Translation(p).result # Translation(q).result

\* init_heap returned Ok on tables that had no table for the heap: three
\* frames hold the new tables and three others the heap pages
TablesAndPagesFromOneAllocator ==
    /\ heap_result = "Ok"
    /\ Len(issued) = 6
    /\ Cardinality(HeapFrames) = 3
    /\ Cardinality(HeapTableFrames \cap { issued[k] : k \in 1 .. Len(issued) }) = 3

(***************************************************************************)
(* Specification of the kernel after scos::init: the heap is set up,       *)
(* interrupts are enabled, and the kernel's code allocates and frees       *)
(* through the language runtime, which calls alloc_error_handler when      *)
(* allocate returns null.  A panic ends in halt_loop, where only interrupt *)
(* handlers still run.                                                     *)
(***************************************************************************)
RuntimeRequests == { <<24, 8>>, <<4096, 4096>>, <<8192, 4096>> }

InitR ==
    /\ initialised = TRUE
    /\ list_heads = [i \in ClassIndexes |-> NULL]
    /\ nodes = <<>>
    /\ holes = fsb_init(HEAP_START, HEAP_SIZE)
    /\ live = {}
    /\ last = [NoCall EXCEPT !.op = "init"]
    /\ hist = [i \in ClassIndexes |-> NoHist]
    /\ FrameIdle
    /\ IndexIdle
    /\ pc = "done"
    /\ interrupts_enabled = TRUE
    /\ cr3 = 0
    /\ tables = {}
    /\ mapper = None
    /\ heap_index = 0
    /\ mapped = <<>>
    /\ heap_error = "none"
    /\ heap_result = "Ok"
    /\ heap_info = Some(init_heap_ok)
    /\ ran = [frame_allocator |-> 1, heap_mapping |-> 1, allocator_init |-> 1]
    /\ tr = NoTranslate
    /\ irq_in_init = FALSE
    /\ LockIdle
    /\ ExecIdle
    /\ IoIdle

\* a slip: the handler reports the failure and returns
alloc_error_handler_returns(size, align) == "done"

\* alloc_error_handler: panic!, then the panic handler's halt_loop
alloc_error_handler(size, align) == "panicked"

\* an allocation by the kernel's code: a null result goes to alloc_error_handler
runtime_alloc(size, align) ==
    /\ pc = "done"
    /\ alloc(size, align)
    /\ pc' = IF last'.ptr = NULL THEN alloc_error_handler(size, align) ELSE pc
    /\ UNCHANGED <<interrupts_enabled, cr3, heapVars, tr, irq_in_init, frameVars>>

runtime_dealloc(a) ==
    /\ pc = "done"
    /\ dealloc(a)
    /\ UNCHANGED <<bootVars, frameVars>>

RuntimeAlloc == \E rq \in RuntimeRequests : runtime_alloc(rq[1], rq[2])
RuntimeDealloc == \E a \in live : runtime_dealloc(a)

NextR ==
    \/ RuntimeAlloc /\ UNCHANGED <<indexVars, lockVars, exec, ioVars>>
    \/ RuntimeDealloc /\ UNCHANGED <<indexVars, lockVars, exec, ioVars>>
    \/ timer_interrupt_handler /\ UNCHANGED <<indexVars, lockVars, exec, ioVars>>

SpecRuntime == InitR /\ [][NextR]_vars

\* C19: an allocate call that returns null takes the kernel into the panic,
\* and from the panic the code that asked never runs again: no later step
\* leaves the panic or touches the allocator.
AllocFailureIsFatal ==
    [][/\ (pc = "done" /\ AllocCall /\ last'.ptr = NULL) => pc' = "panicked"
       /\ pc = "panicked" => (pc' = "panicked" /\ UNCHANGED allocVars)]_vars

\* the kernel panicked on a request the heap could not serve while an
\* allocation was live, and the timer handler ran in the halt loop
PanickedOnFullHeap ==
    /\ pc = "panicked"
    /\ last.op = "alloc"
    /\ last.ptr = NULL
    /\ live # {}
    /\ irq_in_init

(***************************************************************************)
(* The allocator behind its lock, statement by statement.  A call spins    *)
(* in Locked::lock until the mutex is free, takes the head of the list of  *)
(* its class, then either links the list past the node or turns to the     *)
(* fallback allocator, and lets go of the mutex when the guard is dropped  *)
(* at its return.                                                          *)
(***************************************************************************)
Callers == 1 .. MaxCallers

LockRequests == { <<24, 8>>, <<4096, 4096>> }

NoCallInFlight ==
    [pc |-> "idle", op |-> "none", size |-> 0, align |-> 0, ptr |-> NULL,
     node |-> NULL, ret |-> NULL, expect |-> NULL]

Allocator(heads, nds, hs) == [heads |-> heads, nodes |-> nds, holes |-> hs]

\* a slip: the lock is handed out while another caller holds it
lock_free_always(holder) == TRUE

\* spin::Mutex::lock leaves its loop only when no one holds the mutex
lock_free(holder) == holder = 0

\* node.next, read from the block the node lies in
NextOf(nds, node) == IF node \in DOMAIN nds THEN nds[node] ELSE NULL

InFlightAllocs == Cardinality({ c \in DOMAIN callers : callers[c].op = "alloc" })

\* a caller enters alloc(layout)
enter_alloc(c, size, align) ==
    /\ callers[c].pc = "idle"
    /\ callers' = [callers EXCEPT ![c] =
                      [NoCallInFlight EXCEPT !.pc = "lock", !.op = "alloc",
                                             !.size = size, !.align = align]]
    /\ UNCHANGED <<initialised, list_heads, nodes, holes, live, last, hist, lock, serial>>

call_alloc(c, size, align) ==
    /\ Cardinality(live) + InFlightAllocs < MaxLive
    /\ enter_alloc(c, size, align)

\* a caller enters dealloc(ptr, layout) with a block it holds
call_dealloc(c, a) ==
    /\ callers[c].pc = "idle"
    /\ a \in live
    /\ live' = live \ {a}
    /\ callers' = [callers EXCEPT ![c] =
                      [NoCallInFlight EXCEPT !.pc = "lock", !.op = "dealloc",
                                             !.size = a.size, !.align = a.align,
                                             !.ptr = a.ptr]]
    /\ UNCHANGED <<initialised, list_heads, nodes, holes, last, hist, lock, serial>>

\* the allocator after the call, and what the call returns, were it run in one piece
serial_after(c) ==
    IF callers[c].op = "alloc"
    THEN alloc_step(serial.heads, serial.nodes, serial.holes,
                    callers[c].size, callers[c].align)
    ELSE [dealloc_step(serial.heads, serial.nodes, serial.holes, callers[c].ptr,
                       callers[c].size, callers[c].align) EXCEPT !.fb = None] @@ [ptr |-> NULL]

\* let mut allocator = self.lock()
lock_acquire(c) ==
    /\ callers[c].pc = "lock"
    /\ lock_free(lock)
    /\ lock' = c
    /\ serial' = Allocator(serial_after(c).heads, serial_after(c).nodes,
                           serial_after(c).holes)
    /\ callers' = [callers EXCEPT ![c].pc = "take", ![c].expect = serial_after(c).ptr]
    /\ UNCHANGED <<initialised, list_heads, nodes, holes, live, last, hist>>

\* match list_index(&layout): Some(index) => allocator.list_heads[index].take()
take_head(c) ==
    /\ callers[c].pc = "take"
    /\ LET idx == list_index(callers[c].size, callers[c].align)
       IN  IF idx = None
           THEN /\ callers' = [callers EXCEPT ![c].pc = "finish"]
                /\ UNCHANGED list_heads
           ELSE /\ callers' = [callers EXCEPT ![c].pc = "finish",
                                              ![c].node = list_heads[idx[1]]]
                /\ list_heads' = [list_heads EXCEPT ![idx[1]] = NULL]
    /\ UNCHANGED <<initialised, nodes, holes, live, last, hist, lock, serial>>

\* alloc: Some(node) => the head becomes node.next.take();
\*        None => fallback_alloc with the class's or the caller's layout
alloc_finish(c) ==
    /\ callers[c].pc = "finish"
    /\ callers[c].op = "alloc"
    /\ LET idx == list_index(callers[c].size, callers[c].align)
           node == callers[c].node
       IN  IF idx # None /\ node # NULL
           THEN /\ list_heads' = [list_heads EXCEPT ![idx[1]] = NextOf(nodes, node)]
                /\ nodes' = Without(nodes, node)
                /\ callers' = [callers EXCEPT ![c].pc = "unlock", ![c].ret = node]
                /\ UNCHANGED holes
           ELSE LET block == IF idx # None THEN BlockSize(idx[1]) ELSE callers[c].size
                    balign == IF idx # None THEN BlockSize(idx[1]) ELSE callers[c].align
                    r == fallback_alloc(holes, block, balign)
                IN  /\ holes' = r.holes
                    /\ callers' = [callers EXCEPT ![c].pc = "unlock", ![c].ret = r.ptr]
                    /\ UNCHANGED <<list_heads, nodes>>
    /\ UNCHANGED <<initialised, live, last, hist, lock, serial>>

\* dealloc: Some(index) => the node is written into the block and becomes the
\*          head; None => fallback_allocator.deallocate
dealloc_finish(c) ==
    /\ callers[c].pc = "finish"
    /\ callers[c].op = "dealloc"
    /\ LET idx == list_index(callers[c].size, callers[c].align)
       IN  IF idx # None
           THEN IF LIST_NODE_SIZE <= BlockSize(idx[1]) /\ LIST_NODE_ALIGN <= BlockSize(idx[1])
                THEN /\ nodes' = (callers[c].ptr :> callers[c].node) @@ nodes
                     /\ list_heads' = [list_heads EXCEPT ![idx[1]] = callers[c].ptr]
                     /\ callers' = [callers EXCEPT ![c].pc = "unlock"]
                     /\ UNCHANGED holes
                ELSE /\ callers' = [callers EXCEPT ![c].pc = "panicked"]
                     /\ UNCHANGED <<list_heads, nodes, holes>>
           ELSE /\ holes' = deallocate(holes, callers[c].ptr, callers[c].size)
                /\ callers' = [callers EXCEPT ![c].pc = "unlock"]
                /\ UNCHANGED <<list_heads, nodes>>
    /\ UNCHANGED <<initialised, live, last, hist, lock, serial>>

\* the call returns and the MutexGuard is dropped
lock_release(c) ==
    /\ callers[c].pc = "unlock"
    /\ lock' = 0
    /\ live' = IF callers[c].op = "alloc" /\ callers[c].ret # NULL
               THEN live \cup {[ptr |-> callers[c].ret, size |-> callers[c].size,
                                align |-> callers[c].align]}
               ELSE live
    /\ callers' = [callers EXCEPT ![c] = NoCallInFlight]
    /\ UNCHANGED <<initialised, list_heads, nodes, holes, last, hist, serial>>

(***************************************************************************)
(* Specification of contending callers: each of them calls alloc and       *)
(* dealloc on the initialised allocator, and their statements interleave   *)
(* in any way the lock permits.                                            *)
(***************************************************************************)
InitL ==
    /\ initialised = TRUE
    /\ list_heads = [i \in ClassIndexes |-> NULL]
    /\ nodes = <<>>
    /\ holes = fsb_init(HEAP_START, HEAP_SIZE)
    /\ live = {}
    /\ last = [NoCall EXCEPT !.op = "init"]
    /\ hist = [i \in ClassIndexes |-> NoHist]
    /\ lock = 0
    /\ callers = [c \in Callers |-> NoCallInFlight]
    /\ serial = Allocator(list_heads, nodes, holes)
    /\ FrameIdle
    /\ IndexIdle
    /\ BootIdle
    /\ ExecIdle
    /\ IoIdle

NextL ==
    \/ \E c \in Callers, rq \in LockRequests :
          call_alloc(c, rq[1], rq[2]) /\ UNCHANGED <<frameVars, indexVars, bootVars, exec, ioVars>>
    \/ \E c \in Callers, a \in live :
          call_dealloc(c, a) /\ UNCHANGED <<frameVars, indexVars, bootVars, exec, ioVars>>
    \/ \E c \in Callers : lock_acquire(c) /\ UNCHANGED <<frameVars, indexVars, bootVars, exec, ioVars>>
    \/ \E c \in Callers : take_head(c) /\ UNCHANGED <<frameVars, indexVars, bootVars, exec, ioVars>>
    \/ \E c \in Callers : alloc_finish(c) /\ UNCHANGED <<frameVars, indexVars, bootVars, exec, ioVars>>
    \/ \E c \in Callers : dealloc_finish(c) /\ UNCHANGED <<frameVars, indexVars, bootVars, exec, ioVars>>
    \/ \E c \in Callers : lock_release(c) /\ UNCHANGED <<frameVars, indexVars, bootVars, exec, ioVars>>

SpecLock == InitL /\ [][NextL]_vars

\* C17: a caller is between its first read and its last write of the list
\* heads and the fallback heap only while it holds the lock, so at most one
\* caller is; and whenever the lock is free, and when a call is about to
\* return, the allocator and the pointer returned are what running the
\* calls one after another, in the order they took the lock, produces.
LockSerialisesCalls ==
    /\ \A c \in DOMAIN callers :
          callers[c].pc \in {"take", "finish", "unlock"} => lock = c
    /\ lock = 0 => Allocator(list_heads, nodes, holes) = serial
    /\ \A c \in DOMAIN callers :
          callers[c].pc = "unlock" =>
             /\ Allocator(list_heads, nodes, holes) = serial
             /\ callers[c].ret = callers[c].expect

\* a caller has taken a block off a free list and not yet linked the list
\* past it, while another caller spins on the lock
SpinningWhileHeadTaken ==
    \E c, d \in DOMAIN callers :
        /\ callers[c].pc = "finish"
        /\ callers[c].op = "alloc"
        /\ callers[c].node # NULL
        /\ callers[d].pc = "lock"

(***************************************************************************)
(* The kernel after scos::init: kernel_main makes the executor, spawns the *)
(* keyboard task and runs the executor's loop.  Its allocations go through *)
(* the allocator's lock statement by statement, and the timer and keyboard *)
(* handlers run, each in one piece, between any two statements of it.      *)
(* The BTreeMap of waiting tasks may or may not allocate its node when the *)
(* task is put in, and may or may not free it when the task is taken out.  *)
(***************************************************************************)
MAIN == 1

QUEUE_LAYOUT == <<1600, 8>>
TASK_LAYOUT == <<24, 8>>
WAKER_LAYOUT == <<32, 8>>
NODE_LAYOUT == <<192, 8>>

InitK ==
    /\ initialised = TRUE
    /\ list_heads = [i \in ClassIndexes |-> NULL]
    /\ nodes = <<>>
    /\ holes = fsb_init(HEAP_START, HEAP_SIZE)
    /\ live = {}
    /\ last = [NoCall EXCEPT !.op = "init"]
    /\ hist = [i \in ClassIndexes |-> NoHist]
    /\ lock = 0
    /\ callers = [c \in {MAIN} |-> NoCallInFlight]
    /\ serial = Allocator(list_heads, nodes, holes)
    /\ exec = [at |-> "new", task |-> "none", cached |-> FALSE, refs |-> 0,
               slot |-> FALSE, stream |-> FALSE, scancodes |-> 0, wakes |-> 0,
               handler_calls |-> FALSE, spinning |-> FALSE, panicked |-> FALSE,
               woken_in_section |-> FALSE, node |-> FALSE]
    /\ FrameIdle
    /\ IndexIdle
    /\ pc = "done"
    /\ interrupts_enabled = TRUE
    /\ cr3 = 0
    /\ tables = {}
    /\ mapper = None
    /\ heap_index = 0
    /\ mapped = <<>>
    /\ heap_error = "none"
    /\ heap_result = "Ok"
    /\ heap_info = Some(init_heap_ok)
    /\ ran = [frame_allocator |-> 1, heap_mapping |-> 1, allocator_init |-> 1]
    /\ tr = NoTranslate
    /\ irq_in_init = FALSE
    /\ IoIdle

\* the kernel's own flow is at statement p, outside any allocator call
MainAt(p) ==
    /\ exec.at = p
    /\ callers[MAIN].pc = "idle"
    /\ ~exec.spinning
    /\ ~exec.panicked

\* Executor::new: Arc::new(ArrayQueue::new(100))
executor_new ==
    /\ MainAt("new")
    /\ enter_alloc(MAIN, QUEUE_LAYOUT[1], QUEUE_LAYOUT[2])
    /\ exec' = [exec EXCEPT !.at = "spawn"]

\* Task::new boxes the future, spawn puts the task in task_queue
executor_spawn ==
    /\ MainAt("spawn")
    /\ enter_alloc(MAIN, TASK_LAYOUT[1], TASK_LAYOUT[2])
    /\ exec' = [exec EXCEPT !.at = "wake_tasks", !.task = "queued"]

\* wake_tasks: one turn of its loop; the task leaves waiting_tasks
wake_tasks ==
    /\ MainAt("wake_tasks")
    /\ \/ /\ exec' = IF exec.wakes = 0 THEN [exec EXCEPT !.at = "run_ready"]
                     ELSE [exec EXCEPT !.wakes = @ - 1,
                                       !.task = IF @ = "waiting" THEN "queued" ELSE @]
          /\ UNCHANGED <<allocVars, lockVars>>
       \/ /\ exec.wakes > 0
          /\ exec.task = "waiting"
          /\ exec.node
          /\ exec' = [exec EXCEPT !.wakes = @ - 1, !.task = "queued", !.node = FALSE]
          /\ \E a \in live : /\ <<a.size, a.align>> = NODE_LAYOUT
                             /\ call_dealloc(MAIN, a)

\* run_ready_tasks: pop_front and the look into waker_cache
run_ready_tasks ==
    /\ MainAt("run_ready")
    /\ exec' = IF exec.task = "queued"
               THEN [exec EXCEPT !.task = "polling",
                                 !.at = IF exec.cached THEN "poll" ELSE "create_waker"]
               ELSE [exec EXCEPT !.at = "sleep"]
    /\ UNCHANGED <<allocVars, lockVars>>

\* create_waker: Arc::new(TaskWaker), owned by waker_cache from then on
create_waker ==
    /\ MainAt("create_waker")
    /\ enter_alloc(MAIN, WAKER_LAYOUT[1], WAKER_LAYOUT[2])
    /\ exec' = [exec EXCEPT !.at = "poll", !.cached = TRUE, !.refs = 1]

\* the first poll of print_keypresses runs ScancodeStream::new
task_poll ==
    /\ MainAt("poll")
    /\ IF exec.stream
       THEN /\ exec' = [exec EXCEPT !.at = "poll_next"]
            /\ UNCHANGED <<allocVars, lockVars>>
       ELSE /\ enter_alloc(MAIN, QUEUE_LAYOUT[1], QUEUE_LAYOUT[2])
            /\ exec' = [exec EXCEPT !.at = "poll_next", !.stream = TRUE]

\* poll_next: the first pop, then WAKER.register(&cx.waker())
poll_next ==
    /\ MainAt("poll_next")
    /\ exec' = IF exec.scancodes > 0
               THEN [exec EXCEPT !.scancodes = @ - 1]
               ELSE [exec EXCEPT !.at = "poll_again", !.slot = TRUE,
                                 !.refs = @ + 1 - (IF exec.slot THEN 1 ELSE 0)]
    /\ UNCHANGED <<allocVars, lockVars>>

\* poll_next: the second pop; Ok drops what WAKER.take() returns
poll_again ==
    /\ MainAt("poll_again")
    /\ exec' = IF exec.scancodes > 0
               THEN [exec EXCEPT !.scancodes = @ - 1, !.at = "poll_next",
                                 !.slot = FALSE,
                                 !.refs = @ - (IF exec.slot THEN 1 ELSE 0)]
               ELSE [exec EXCEPT !.at = "pending"]
    /\ UNCHANGED <<allocVars, lockVars>>

\* a slip: the waker handed to poll is the loop's own and is dropped after it
refs_after_poll_owned(refs) == refs - 1

\* poll got a reference to the waker in waker_cache: nothing is dropped
refs_after_poll(refs) == refs

\* Poll::Pending: waiting_tasks.insert(task_id, task)
poll_pending ==
    /\ MainAt("pending")
    /\ \/ /\ exec' = [exec EXCEPT !.at = "run_ready", !.task = "waiting",
                                  !.refs = refs_after_poll(@)]
          /\ UNCHANGED <<allocVars, lockVars>>
       \/ /\ ~exec.node
          /\ exec' = [exec EXCEPT !.at = "run_ready", !.task = "waiting",
                                  !.refs = refs_after_poll(@), !.node = TRUE]
          /\ enter_alloc(MAIN, NODE_LAYOUT[1], NODE_LAYOUT[2])

\* sleep_if_idle: hlt with interrupts enabled unless a wake-up is queued
sleep_if_idle ==
    /\ MainAt("sleep")
    /\ exec' = [exec EXCEPT !.at = IF exec.wakes > 0 THEN "wake_tasks" ELSE "halted"]
    /\ UNCHANGED <<allocVars, lockVars>>

\* an interrupt ends hlt
Unhalted(at) == IF at = "halted" THEN "wake_tasks" ELSE at

HandlerRuns ==
    /\ interrupts_enabled
    /\ ~exec.spinning
    /\ ~exec.panicked

timer_interrupt ==
    /\ HandlerRuns
    /\ exec' = [exec EXCEPT !.at = Unhalted(@)]
    /\ UNCHANGED <<allocVars, lockVars>>

\* WAKER.wake(): the waker is taken, TaskWaker::wake pushes the task id and
\* the Arc it was handed is dropped; the last reference frees the TaskWaker
waker_wake(e) ==
    IF ~e.slot THEN e
    ELSE [e EXCEPT !.slot = FALSE,
                   !.wakes = IF @ < QueueCapacity THEN @ + 1 ELSE @,
                   !.panicked = e.wakes >= QueueCapacity,
                   !.refs = @ - 1,
                   !.woken_in_section = @ \/ lock # 0,
                   !.handler_calls = @ \/ (e.wakes < QueueCapacity /\ e.refs = 1),
                   !.spinning = e.wakes < QueueCapacity /\ e.refs = 1 /\ lock # 0]

\* push_scancode
push_scancode(e) ==
    IF ~e.stream \/ e.scancodes >= QueueCapacity THEN e
    ELSE waker_wake([e EXCEPT !.scancodes = @ + 1])

keyboard_interrupt_handler ==
    /\ HandlerRuns
    /\ exec' = [push_scancode(exec) EXCEPT !.at = Unhalted(@)]
    /\ UNCHANGED <<allocVars, lockVars>>

\* the statements of the kernel's allocator call in flight
MainLockStep ==
    /\ ~exec.spinning
    /\ ~exec.panicked
    /\ \/ lock_acquire(MAIN)
       \/ take_head(MAIN)
       \/ alloc_finish(MAIN)
       \/ dealloc_finish(MAIN)
       \/ lock_release(MAIN)
    /\ UNCHANGED <<frameVars, indexVars, bootVars, exec, ioVars>>

NextK ==
    \/ executor_new /\ UNCHANGED <<frameVars, indexVars, bootVars, ioVars>>
    \/ executor_spawn /\ UNCHANGED <<frameVars, indexVars, bootVars, ioVars>>
    \/ wake_tasks /\ UNCHANGED <<frameVars, indexVars, bootVars, ioVars>>
    \/ run_ready_tasks /\ UNCHANGED <<frameVars, indexVars, bootVars, ioVars>>
    \/ create_waker /\ UNCHANGED <<frameVars, indexVars, bootVars, ioVars>>
    \/ task_poll /\ UNCHANGED <<frameVars, indexVars, bootVars, ioVars>>
    \/ poll_next /\ UNCHANGED <<frameVars, indexVars, bootVars, ioVars>>
    \/ poll_again /\ UNCHANGED <<frameVars, indexVars, bootVars, ioVars>>
    \/ poll_pending /\ UNCHANGED <<frameVars, indexVars, bootVars, ioVars>>
    \/ sleep_if_idle /\ UNCHANGED <<frameVars, indexVars, bootVars, ioVars>>
    \/ timer_interrupt /\ UNCHANGED <<frameVars, indexVars, bootVars, ioVars>>
    \/ keyboard_interrupt_handler /\ UNCHANGED <<frameVars, indexVars, bootVars, ioVars>>
    \/ MainLockStep

SpecKernel == InitK /\ [][NextK]_vars /\ WF_vars(MainLockStep)

\* C18: no interrupt handler calls allocate or deallocate, so none ever
\* spins on a lock the interrupted flow holds; whoever holds the lock is
\* inside its own call and not waiting for the lock again; and every call
\* that has taken the lock releases it, unless the kernel panics and halts
\* before it could.
NoReentrantAcquisition ==
    /\ [](/\ ~exec.handler_calls
          /\ ~exec.spinning
          /\ lock # 0 => callers[lock].pc \in {"take", "finish", "unlock"})
    /\ (lock # 0 ~> (lock = 0 \/ exec.panicked))

\* the keyboard handler woke the task while the kernel's flow was inside an
\* allocator call holding the lock, and that call has returned since
WokenInsideCriticalSection ==
    /\ exec.woken_in_section
    /\ lock = 0
    /\ callers[MAIN].pc = "idle"
    /\ exec.wakes > 0

(***************************************************************************)
(* The scancode queue of task::keyboard.  SCANCODE_QUEUE is a OnceCell     *)
(* that ScancodeStream::new fills with an ArrayQueue; the keyboard handler *)
(* pushes into it at any time, also while the kernel sits in the halt loop *)
(* after a panic, and a stream pops from it.                               *)
(***************************************************************************)
SCANCODE_QUEUE_CAPACITY == 100
MaxScancode == 3      \* the keyboard sends scancodes 1 .. MaxScancode
MaxQueued == 3        \* scancodes waiting in the queue at the same time

\* ArrayQueue::new(cap)
ArrayQueue(cap) == [cap |-> cap, items |-> <<>>]

\* OnceCell::try_init_once: Err when the cell has been initialised before
try_init_once(cell, value) ==
    IF cell = None THEN [ok |-> TRUE, cell |-> Some(value)]
    ELSE [ok |-> FALSE, cell |-> cell]

\* ArrayQueue::push: Err when the queue is full
array_queue_push(q, x) ==
    IF Len(q.items) >= q.cap THEN [ok |-> FALSE, queue |-> q]
    ELSE [ok |-> TRUE, queue |-> [q EXCEPT !.items = Append(@, x)]]

\* a slip: the result of try_init_once is not looked at
scancode_stream_new_unchecked(k) ==
    LET r == try_init_once(k.queue, ArrayQueue(SCANCODE_QUEUE_CAPACITY))
    IN  [k EXCEPT !.queue = r.cell, !.news = @ + 1, !.streams = @ + 1]

\* ScancodeStream::new: expect() panics on Err, else a stream is returned
scancode_stream_new(k) ==
    LET r == try_init_once(k.queue, ArrayQueue(SCANCODE_QUEUE_CAPACITY))
    IN  IF r.ok
        THEN [k EXCEPT !.queue = r.cell, !.news = @ + 1, !.streams = @ + 1]
        ELSE [k EXCEPT !.queue = r.cell, !.news = @ + 1, !.panicked = TRUE]

\* push_scancode on the queue: a scancode is dropped when the queue is
\* missing or full
scancode_queue_push(k, scancode) ==
    IF k.queue = None THEN k
    ELSE [k EXCEPT !.queue = Some(array_queue_push(k.queue[1], scancode).queue)]

\* poll_next: queue.pop()
scancode_queue_pop(k) ==
    [k EXCEPT !.queue = Some([k.queue[1] EXCEPT !.items = Tail(@)]),
              !.popped = Some(Head(k.queue[1].items))]

InitQ ==
    /\ kbd = [queue |-> None, news |-> 0, streams |-> 0, panicked |-> FALSE,
              popped |-> None]
    /\ vga = <<>>
    /\ TaskIdle
    /\ AllocIdle
    /\ FrameIdle
    /\ IndexIdle
    /\ BootIdle
    /\ LockIdle
    /\ ExecIdle

\* a task calls ScancodeStream::new
StreamNew ==
    /\ ~kbd.panicked
    /\ kbd' = scancode_stream_new(kbd)

\* the keyboard interrupt handler hands a scancode to push_scancode
KeyPressed ==
    /\ kbd.queue # None => Len(kbd.queue[1].items) < MaxQueued
    /\ \E scancode \in 1 .. MaxScancode : kbd' = scancode_queue_push(kbd, scancode)

\* the task that holds a stream polls it while a scancode waits
StreamPop ==
    /\ ~kbd.panicked
    /\ kbd.streams > 0
    /\ kbd.queue[1].items # <<>>
    /\ kbd' = scancode_queue_pop(kbd)

NextQ ==
    \/ StreamNew /\ UNCHANGED <<allocVars, frameVars, indexVars, bootVars, lockVars, exec, vga, taskVars>>
    \/ KeyPressed /\ UNCHANGED <<allocVars, frameVars, indexVars, bootVars, lockVars, exec, vga, taskVars>>
    \/ StreamPop /\ UNCHANGED <<allocVars, frameVars, indexVars, bootVars, lockVars, exec, vga, taskVars>>

SpecStream == InitQ /\ [][NextQ]_vars

\* C23: the first call of ScancodeStream::new creates the empty queue of
\* SCANCODE_QUEUE_CAPACITY entries and returns a stream; every later call
\* panics, returns no stream, and leaves the queue and what it holds as
\* they were.
StreamNewOnlyOnce ==
    [][kbd'.news # kbd.news =>
          IF kbd.news = 0
          THEN /\ kbd.queue = None
               /\ kbd'.queue = Some([cap |-> 100, items |-> <<>>])
               /\ kbd'.streams = 1
               /\ ~kbd'.panicked
          ELSE /\ kbd'.panicked
               /\ kbd'.streams = kbd.streams
               /\ kbd'.queue = kbd.queue
               /\ kbd.queue # None]_vars

\* a second call panicked after a scancode had been popped, and three
\* scancodes wait in the queue
SecondNewPanicked ==
    /\ kbd.panicked
    /\ kbd.news = 2
    /\ kbd.popped # None
    /\ Len(kbd.queue[1].items) = 3

(***************************************************************************)
(* The VGA writer behind its lock.  The kernel's flow prints through       *)
(* _print and may call set_colour and reset_colour; a handler that prints  *)
(* (the keyboard handler when push_scancode reports an error, the          *)
(* breakpoint handler) runs between any two statements of the flow while   *)
(* the interrupt flag is set, and runs to its end before the flow goes on. *)
(* The screen is the writer's column position and display code.            *)
(***************************************************************************)
BUFFER_WIDTH == 80
NEWLINE == 10

\* Colour::White, Colour::Black, Colour::Red as (foreground, background)
Colours == { <<15, 0>>, <<4, 0>>, <<0, 15>> }

\* the bytes printed: a new line and a letter
PrintBytes == { NEWLINE, 65 }

\* DisplayCode::new
display_code_new(foreground, background) == background * 16 + foreground

\* Writer::new_line
new_line(w) == [w EXCEPT !.col_pos = 0]

\* Writer::write_byte
write_byte(w, byte) ==
    IF byte = NEWLINE THEN new_line(w)
    ELSE LET v == IF w.col_pos >= BUFFER_WIDTH THEN new_line(w) ELSE w
         IN  [v EXCEPT !.col_pos = @ + 1]

InitV ==
    /\ vga = [holder |-> "none", at |-> "idle", saved |-> FALSE, col_pos |-> 0,
              display_code |-> display_code_new(15, 0), spinning |-> FALSE]
    /\ interrupts_enabled \in BOOLEAN
    /\ pc = "done"
    /\ cr3 = 0
    /\ tables = {}
    /\ mapper = None
    /\ heap_index = 0
    /\ mapped = <<>>
    /\ heap_error = "none"
    /\ heap_result = "none"
    /\ heap_info = None
    /\ ran = NotRun
    /\ tr = NoTranslate
    /\ irq_in_init = FALSE
    /\ kbd = <<>>
    /\ TaskIdle
    /\ AllocIdle
    /\ FrameIdle
    /\ IndexIdle
    /\ LockIdle
    /\ ExecIdle

\* the flow is at statement p and no handler spins on top of it
FlowAt(p) == vga.at = p /\ ~vga.spinning

\* _print: without_interrupts saves the interrupt flag and clears it
print_without_interrupts ==
    /\ FlowAt("idle")
    /\ vga' = [vga EXCEPT !.at = "print_lock", !.saved = interrupts_enabled]
    /\ interrupts_enabled' = FALSE

\* _print: WRITER.lock() leaves its loop when no one holds the lock
print_lock ==
    /\ FlowAt("print_lock")
    /\ vga.holder = "none"
    /\ vga' = [vga EXCEPT !.at = "print_write", !.holder = "main"]
    /\ UNCHANGED interrupts_enabled

\* _print: write_fmt, then the guard is dropped
print_write ==
    /\ FlowAt("print_write")
    /\ \E byte \in PrintBytes :
          vga' = [write_byte(vga, byte) EXCEPT !.at = "print_restore", !.holder = "none"]
    /\ UNCHANGED interrupts_enabled

\* _print: without_interrupts sets the flag again if it was set
print_restore ==
    /\ FlowAt("print_restore")
    /\ vga' = [vga EXCEPT !.at = "idle"]
    /\ interrupts_enabled' = vga.saved

\* set_colour and reset_colour: WRITER.lock()
set_colour_lock ==
    /\ FlowAt("idle")
    /\ vga.holder = "none"
    /\ vga' = [vga EXCEPT !.at = "colour", !.holder = "main"]
    /\ UNCHANGED interrupts_enabled

\* set_colour and reset_colour: the display code is set, the guard dropped
set_colour_store ==
    /\ FlowAt("colour")
    /\ \E c \in Colours :
          vga' = [vga EXCEPT !.display_code = display_code_new(c[1], c[2]),
                             !.at = "idle", !.holder = "none"]
    /\ UNCHANGED interrupts_enabled

\* a handler prints: the CPU enters it with the flag cleared, _print finds
\* the lock free and writes, or spins on the lock of the flow under it
handler_print ==
    /\ interrupts_enabled
    /\ ~vga.spinning
    /\ \E byte \in PrintBytes :
          vga' = IF vga.holder = "none" THEN write_byte(vga, byte)
                 ELSE [vga EXCEPT !.spinning = TRUE]
    /\ UNCHANGED interrupts_enabled

vgaFrame == <<pc, cr3, heapVars, tr, irq_in_init, allocVars, frameVars, indexVars,
              lockVars, exec, kbd, taskVars>>

NextV ==
    \/ print_without_interrupts /\ UNCHANGED vgaFrame
    \/ print_lock /\ UNCHANGED vgaFrame
    \/ print_write /\ UNCHANGED vgaFrame
    \/ print_restore /\ UNCHANGED vgaFrame
    \/ set_colour_lock /\ UNCHANGED vgaFrame
    \/ set_colour_store /\ UNCHANGED vgaFrame
    \/ handler_print /\ UNCHANGED vgaFrame

SpecVga == InitV /\ [][NextV]_vars

\* C24: whenever the kernel's flow holds the WRITER lock the interrupt flag
\* is clear, and no handler that prints spins on the lock.
WriterLockedWithInterruptsOff ==
    /\ vga.holder = "main" => ~interrupts_enabled
    /\ ~vga.spinning

(***************************************************************************)
(* The executor of task::executor.  Tasks are made by Task::new and        *)
(* spawned, then run() loops over wake_tasks, run_ready_tasks and          *)
(* sleep_if_idle.  The model takes the loops one turn at a time and a poll *)
(* in pieces: while a task is polled it may wake itself through the waker  *)
(* of its Context and may leave a clone of that waker with an interrupt    *)
(* source.  Interrupt handlers run between any two steps while the         *)
(* interrupt flag is set; a handler may wake a waker left with it.         *)
(***************************************************************************)
WAKE_QUEUE_CAPACITY == 100
MaxTasks == 2         \* tasks spawned before run()
MaxWakes == 2         \* task ids waiting in the wake queue at the same time

Futures == { "print_keypresses", "other" }

\* BTreeMap::new, insert and remove
EmptyMap == [k \in {} |-> 0]
map_insert(m, k, v) == [x \in DOMAIN m \cup {k} |-> IF x = k THEN v ELSE m[x]]
map_remove(m, k) == [x \in DOMAIN m \ {k} |-> m[x]]

\* a slip: every task gets the id 0
task_id_new_constant(next_id) == [id |-> 0, next_id |-> next_id + 1]

\* TaskId::new: NEXT_ID.fetch_add(1, Relaxed)
task_id_new(next_id) == [id |-> next_id, next_id |-> next_id + 1]

\* Task::new
task_new(future, next_id) == [id |-> task_id_new(next_id).id, future |-> future]

\* Executor::create_waker: a TaskWaker for the task id
task_waker(task_id) == [task_id |-> task_id]

\* Executor::new, with the history the properties speak about
executor_fields ==
    [task_queue |-> <<>>, waiting_tasks |-> EmptyMap,
     wake_queue |-> ArrayQueue(WAKE_QUEUE_CAPACITY), waker_cache |-> EmptyMap,
     next_id |-> 0, at |-> "spawn", task |-> None, context |-> None,
     registered |-> {}, empty |-> FALSE, panicked |-> "none",
     spawned |-> <<>>, polled |-> {}, repolled |-> {}, completed |-> {},
     wakers_made |-> <<>>]

\* Executor::spawn of a task just made
spawn(e, task) ==
    [e EXCEPT !.task_queue = Append(@, task), !.spawned = Append(@, task),
              !.next_id = task_id_new(@).next_id]

\* TaskWaker::wake_task: push(task_id).expect(..)
wake_task(e, waker) ==
    IF array_queue_push(e.wake_queue, waker.task_id).ok
    THEN [e EXCEPT !.wake_queue = array_queue_push(e.wake_queue, waker.task_id).queue]
    ELSE [e EXCEPT !.panicked = "wake queue is full"]

\* a slip: the woken task leaves waiting_tasks and is not queued
wake_tasks_turn_loses_task(e) ==
    IF e.wake_queue.items = <<>> THEN [e EXCEPT !.at = "run_ready_tasks"]
    ELSE IF Head(e.wake_queue.items) \in DOMAIN e.waiting_tasks
    THEN [e EXCEPT !.wake_queue.items = Tail(@),
                   !.waiting_tasks = map_remove(@, Head(e.wake_queue.items))]
    ELSE [e EXCEPT !.wake_queue.items = Tail(@)]

\* a slip: the woken task is queued and stays in waiting_tasks
wake_tasks_turn_keeps_waiting(e) ==
    IF e.wake_queue.items = <<>> THEN [e EXCEPT !.at = "run_ready_tasks"]
    ELSE IF Head(e.wake_queue.items) \in DOMAIN e.waiting_tasks
    THEN [e EXCEPT !.wake_queue.items = Tail(@),
                   !.task_queue = Append(@, e.waiting_tasks[Head(e.wake_queue.items)])]
    ELSE [e EXCEPT !.wake_queue.items = Tail(@)]

\* wake_tasks: one turn of its loop
wake_tasks_turn(e) ==
    IF e.wake_queue.items = <<>> THEN [e EXCEPT !.at = "run_ready_tasks"]
    ELSE IF Head(e.wake_queue.items) \in DOMAIN e.waiting_tasks
    THEN [e EXCEPT !.wake_queue.items = Tail(@),
                   !.waiting_tasks = map_remove(@, Head(e.wake_queue.items)),
                   !.task_queue = Append(@, e.waiting_tasks[Head(e.wake_queue.items)])]
    ELSE [e EXCEPT !.wake_queue.items = Tail(@)]

\* the waker cache after the contains_key test and the insert
cache_for(e, task_id) ==
    IF task_id \in DOMAIN e.waker_cache THEN e.waker_cache
    ELSE map_insert(e.waker_cache, task_id, task_waker(task_id))

\* the task popped from task_queue is handed its Context
poll_begin(e, task, cache) ==
    IF task.id \notin DOMAIN cache
    THEN [e EXCEPT !.task_queue = Tail(@), !.panicked = "waker not in cache"]
    ELSE [e EXCEPT !.task_queue = Tail(@),
                   !.waker_cache = cache,
                   !.wakers_made = IF cache = e.waker_cache THEN @
                                   ELSE Append(@, task.id),
                   !.task = Some(task),
                   !.context = Some(cache[task.id]),
                   !.repolled = IF task.id \in e.polled THEN @ \cup {task.id} ELSE @,
                   !.polled = @ \cup {task.id},
                   !.at = "poll"]

\* run_ready_tasks: one turn of its loop up to the call of task.poll
run_ready_turn(e) ==
    IF e.task_queue = <<>> THEN [e EXCEPT !.at = "sleep_if_idle"]
    ELSE poll_begin(e, Head(e.task_queue), cache_for(e, Head(e.task_queue).id))

\* a slip: the waker of a finished task stays in the cache
poll_ready_keeps_waker(e) ==
    [e EXCEPT !.completed = @ \cup {e.task[1].id},
              !.task = None, !.context = None, !.at = "run_ready_tasks"]

\* Poll::Ready: the waker is removed from the cache, the task is dropped
poll_ready(e) ==
    [e EXCEPT !.waker_cache = map_remove(@, e.task[1].id),
              !.completed = @ \cup {e.task[1].id},
              !.task = None, !.context = None, !.at = "run_ready_tasks"]

\* Poll::Pending: waiting_tasks.insert, a panic if the id was a key already
poll_pending_insert(e) ==
    IF e.task[1].id \in DOMAIN e.waiting_tasks
    THEN [e EXCEPT !.waiting_tasks = map_insert(@, e.task[1].id, e.task[1]),
                   !.panicked = "already waiting"]
    ELSE [e EXCEPT !.waiting_tasks = map_insert(@, e.task[1].id, e.task[1]),
                   !.task = None, !.context = None, !.at = "run_ready_tasks"]

\* a slip: interrupts::disable is left out
interrupts_disable_left_out(flag) == flag

\* x86_64::instructions::interrupts::disable
interrupts_disable(flag) == FALSE

execFrame == <<pc, cr3, heapVars, tr, irq_in_init, allocVars, frameVars, indexVars,
               lockVars, exec, kbd, vga, keys, writer>>

InitE ==
    /\ executor = executor_fields
    /\ interrupts_enabled = TRUE
    /\ pc = "done"
    /\ cr3 = 0
    /\ tables = {}
    /\ mapper = None
    /\ heap_index = 0
    /\ mapped = <<>>
    /\ heap_error = "none"
    /\ heap_result = "none"
    /\ heap_info = None
    /\ ran = NotRun
    /\ tr = NoTranslate
    /\ irq_in_init = FALSE
    /\ kbd = <<>>
    /\ vga = <<>>
    /\ keys = <<>>
    /\ writer = <<>>
    /\ AllocIdle
    /\ FrameIdle
    /\ IndexIdle
    /\ LockIdle
    /\ ExecIdle

\* the executor's flow stands at statement p
ExecutorAt(p) == executor.at = p /\ executor.panicked = "none"

\* kernel_main: executor.spawn(Task::new(future))
SpawnTask ==
    /\ ExecutorAt("spawn")
    /\ executor.next_id < MaxTasks
    /\ \E future \in Futures :
          executor' = spawn(executor, task_new(future, executor.next_id))
    /\ UNCHANGED interrupts_enabled

\* kernel_main: executor.run()
Run ==
    /\ ExecutorAt("spawn")
    /\ executor' = [executor EXCEPT !.at = "wake_tasks"]
    /\ UNCHANGED interrupts_enabled

WakeTasksTurn ==
    /\ ExecutorAt("wake_tasks")
    /\ executor' = wake_tasks_turn(executor)
    /\ UNCHANGED interrupts_enabled

RunReadyTurn ==
    /\ ExecutorAt("run_ready_tasks")
    /\ executor' = run_ready_turn(executor)
    /\ UNCHANGED interrupts_enabled

\* the future polled leaves a clone of its waker with an interrupt source
TaskRegisters ==
    /\ ExecutorAt("poll")
    /\ executor.context[1] \notin executor.registered
    /\ executor' = [executor EXCEPT !.registered = @ \cup {executor.context[1]}]
    /\ UNCHANGED interrupts_enabled

\* the future polled calls wake_by_ref on its waker
TaskWakesItself ==
    /\ ExecutorAt("poll")
    /\ Len(executor.wake_queue.items) < MaxWakes
    /\ executor' = wake_task(executor, executor.context[1])
    /\ UNCHANGED interrupts_enabled

\* task.poll returns; print_keypresses never returns Ready
PollReturns ==
    /\ ExecutorAt("poll")
    /\ \/ /\ executor.task[1].future # "print_keypresses"
          /\ executor' = poll_ready(executor)
       \/ executor' = poll_pending_insert(executor)
    /\ UNCHANGED interrupts_enabled

\* sleep_if_idle: if !self.wake_queue.is_empty() { return; }
SleepFirstCheck ==
    /\ ExecutorAt("sleep_if_idle")
    /\ executor' = [executor EXCEPT !.at = IF executor.wake_queue.items # <<>>
                                           THEN "wake_tasks" ELSE "sleep_disable"]
    /\ UNCHANGED interrupts_enabled

SleepDisable ==
    /\ ExecutorAt("sleep_disable")
    /\ interrupts_enabled' = interrupts_disable(interrupts_enabled)
    /\ executor' = [executor EXCEPT !.at = "sleep_check"]

\* sleep_if_idle: the second self.wake_queue.is_empty()
SleepSecondCheck ==
    /\ ExecutorAt("sleep_check")
    /\ executor' = [executor EXCEPT !.at = "sleep_halt",
                                    !.empty = executor.wake_queue.items = <<>>]
    /\ UNCHANGED interrupts_enabled

\* enable_interrupts_and_hlt (sti; hlt, no interrupt between them) or enable
SleepHalt ==
    /\ ExecutorAt("sleep_halt")
    /\ interrupts_enabled' = TRUE
    /\ executor' = [executor EXCEPT !.at = IF executor.empty THEN "halted"
                                           ELSE "wake_tasks"]

\* hlt ends when a handler returns: sleep_if_idle returns and the loop goes on
AfterInterrupt(at) == IF at = "halted" THEN "wake_tasks" ELSE at

\* an interrupt whose handler wakes no task
TimerInterrupt ==
    /\ interrupts_enabled
    /\ executor.panicked = "none"
    /\ executor' = [executor EXCEPT !.at = AfterInterrupt(@)]
    /\ UNCHANGED interrupts_enabled

\* an interrupt whose handler takes a waker left with it and wakes it
WakeInterrupt ==
    /\ interrupts_enabled
    /\ executor.panicked = "none"
    /\ Len(executor.wake_queue.items) < MaxWakes
    /\ \E waker \in executor.registered :
          executor' = [wake_task(executor, waker) EXCEPT
                          !.registered = @ \ {waker},
                          !.at = AfterInterrupt(@)]
    /\ UNCHANGED interrupts_enabled

\* the steps of run(), which the CPU goes on taking
ExecutorStep ==
    /\ \/ Run
       \/ WakeTasksTurn
       \/ RunReadyTurn
       \/ PollReturns
       \/ SleepFirstCheck
       \/ SleepDisable
       \/ SleepSecondCheck
       \/ SleepHalt
    /\ UNCHANGED execFrame

NextE ==
    \/ SpawnTask /\ UNCHANGED execFrame
    \/ TaskRegisters /\ UNCHANGED execFrame
    \/ TaskWakesItself /\ UNCHANGED execFrame
    \/ TimerInterrupt /\ UNCHANGED execFrame
    \/ WakeInterrupt /\ UNCHANGED execFrame
    \/ ExecutorStep

SpecExec == InitE /\ [][NextE]_vars /\ WF_vars(ExecutorStep)

\* how many times the task stands in task_queue
TimesQueued(task) ==
    Cardinality({ i \in 1 .. Len(executor.task_queue) : executor.task_queue[i] = task })

\* the task is held by waiting_tasks under its id
Waiting(task) ==
    /\ task.id \in DOMAIN executor.waiting_tasks
    /\ executor.waiting_tasks[task.id] = task

SleepStatements == {"sleep_if_idle", "sleep_disable", "sleep_check", "sleep_halt", "halted"}

\* C32: whenever no task is being polled, every spawned task that has not
\* returned Ready is either once in task_queue and not in waiting_tasks, or
\* in waiting_tasks and not in task_queue, and a task that returned Ready is
\* in neither; task_queue is empty from the end of run_ready_tasks until
\* sleep_if_idle returns; and no task that returned Ready is polled again.
TasksHeldOnce ==
    /\ [](executor.task = None =>
             \A i \in 1 .. Len(executor.spawned) :
                IF executor.spawned[i].id \in executor.completed
                THEN /\ TimesQueued(executor.spawned[i]) = 0
                     /\ executor.spawned[i].id \notin DOMAIN executor.waiting_tasks
                ELSE \/ /\ TimesQueued(executor.spawned[i]) = 1
                        /\ executor.spawned[i].id \notin DOMAIN executor.waiting_tasks
                     \/ /\ TimesQueued(executor.spawned[i]) = 0
                        /\ Waiting(executor.spawned[i]))
    /\ [](executor.at \in SleepStatements => executor.task_queue = <<>>)
    /\ [](Len(executor.task_queue) + Cardinality(DOMAIN executor.waiting_tasks)
             + Cardinality(executor.completed)
             + (IF executor.task = None THEN 0 ELSE 1) = Len(executor.spawned))
    /\ [][(executor.task = None /\ executor'.task # None)
             => executor'.task[1].id \notin executor.completed]_vars

\* one task has returned Ready, the other waits after its second poll, and
\* the executor has gone to sleep
OneDoneOneWaiting ==
    /\ executor.at = "halted"
    /\ Cardinality(executor.completed) = 1
    /\ Cardinality(DOMAIN executor.waiting_tasks) = 1
    /\ DOMAIN executor.waiting_tasks \subseteq executor.repolled

\* C33: the waker cache holds an entry for exactly the task ids that have
\* been polled and have not returned Ready, each entry a waker of that id;
\* the task being polled holds the cached waker of its own id, the lookup
\* in the cache never fails, and a waker is made for an id at most once
\* until the task completes, however often the task is polled.
WakerCachedWhilePolled ==
    /\ DOMAIN executor.waker_cache = executor.polled \ executor.completed
    /\ \A task_id \in DOMAIN executor.waker_cache :
          executor.waker_cache[task_id] = [task_id |-> task_id]
    /\ executor.task # None =>
          /\ executor.context = Some(executor.waker_cache[executor.task[1].id])
          /\ executor.context[1].task_id = executor.task[1].id
    /\ executor.panicked # "waker not in cache"
    /\ \A i, j \in 1 .. Len(executor.wakers_made) :
          i # j => executor.wakers_made[i] # executor.wakers_made[j]

\* a task is polled for the second time with the waker made at its first
\* poll, after the other task has returned Ready and lost its waker
SecondPollReusesWaker ==
    /\ executor.task # None
    /\ executor.task[1].id \in executor.repolled
    /\ Len(executor.wakers_made) = 2
    /\ Cardinality(executor.completed) = 1
    /\ DOMAIN executor.waker_cache = {executor.task[1].id}

\* the task ids waiting in the wake queue
WakesQueued == { executor.wake_queue.items[i] : i \in 1 .. Len(executor.wake_queue.items) }

\* C34: a turn of wake_tasks that pops the id of a task in waiting_tasks
\* takes the task out of waiting_tasks and puts it at the back of
\* task_queue, and one that pops any other id changes neither collection;
\* and a task that is in waiting_tasks while its id is in the wake queue,
\* whether the id was pushed during the poll that returned Pending or
\* after it, by the task or by an interrupt handler, is polled again.
NoWakeupLost ==
    /\ [][(executor.at = "wake_tasks"
             /\ Len(executor'.wake_queue.items) < Len(executor.wake_queue.items))
          => /\ executor'.wake_queue.items = Tail(executor.wake_queue.items)
             /\ IF Head(executor.wake_queue.items) \in DOMAIN executor.waiting_tasks
                THEN /\ executor'.task_queue
                           = Append(executor.task_queue,
                                    executor.waiting_tasks[Head(executor.wake_queue.items)])
                     /\ DOMAIN executor'.waiting_tasks
                           = DOMAIN executor.waiting_tasks \ {Head(executor.wake_queue.items)}
                ELSE /\ executor'.task_queue = executor.task_queue
                     /\ executor'.waiting_tasks = executor.waiting_tasks]_vars
    /\ \A task_id \in 0 .. MaxTasks - 1 :
          (task_id \in DOMAIN executor.waiting_tasks /\ task_id \in WakesQueued)
             ~> (executor.task # None /\ executor.task[1].id = task_id)

\* a task polled before is being polled again, and an interrupt handler has
\* pushed its id on the wake queue during this poll
WokenDuringPoll ==
    /\ executor.at = "poll"
    /\ executor.task[1].id \in executor.repolled
    /\ executor.task[1].id \in WakesQueued
    /\ executor.context[1] \notin executor.registered
    /\ executor.task[1].future = "print_keypresses"

\* C35: the CPU is halted only with the wake queue empty and the interrupt
\* flag set; sleep_if_idle makes its second test of the wake queue and acts
\* on it with the interrupt flag clear; it halts only if that test found the
\* queue empty and the queue still is; and when it returns without halting
\* the wake queue is not empty and the interrupt flag is set.
HaltOnlyWhenNoWakeQueued ==
    /\ [](executor.at = "halted" =>
             (executor.wake_queue.items = <<>> /\ interrupts_enabled))
    /\ [](executor.at \in {"sleep_check", "sleep_halt"} => ~interrupts_enabled)
    /\ [](executor.at = "sleep_halt" =>
             (executor.empty <=> executor.wake_queue.items = <<>>))
    /\ [][(executor.at \in SleepStatements \ {"halted"} /\ executor'.at = "wake_tasks")
             => (executor'.wake_queue.items # <<>> /\ interrupts_enabled')]_vars
    /\ [][(executor.at # "halted" /\ executor'.at = "halted")
             => (executor.at = "sleep_halt" /\ executor.wake_queue.items = <<>>
                   /\ ~interrupts_enabled /\ interrupts_enabled')]_vars

\* a handler pushed a wake between the first test of the wake queue and
\* interrupts::disable: the second test found it and the CPU will not halt
WakeSeenBySecondCheck ==
    /\ executor.at = "sleep_halt"
    /\ ~executor.empty
    /\ ~interrupts_enabled
    /\ executor.wake_queue.items # <<>>
    /\ DOMAIN executor.waiting_tasks # {}

\* C36: the tasks spawned carry ids that rise strictly in the order of
\* Task::new and the counter is above all of them; the task being polled is
\* in neither task_queue nor waiting_tasks under its id; and the executor
\* never panics because the id of a task that returned Pending was already
\* a key of waiting_tasks.
SameIdNeverWaiting ==
    /\ executor.panicked # "already waiting"
    /\ \A i, j \in 1 .. Len(executor.spawned) :
          i < j => executor.spawned[i].id < executor.spawned[j].id
    /\ \A i \in 1 .. Len(executor.spawned) : executor.spawned[i].id < executor.next_id
    /\ executor.task # None =>
          /\ executor.task[1].id \notin DOMAIN executor.waiting_tasks
          /\ \A i \in 1 .. Len(executor.task_queue) :
                executor.task_queue[i].id # executor.task[1].id

\* both tasks run the same future and wait, each after its second poll
\* returned Pending
BothWaitingAgain ==
    /\ DOMAIN executor.waiting_tasks = {0, 1}
    /\ executor.repolled = {0, 1}
    /\ executor.waiting_tasks[0].future = executor.waiting_tasks[1].future
    /\ executor.task = None
    /\ executor.panicked = "none"

(***************************************************************************)
(* The keyboard task and the keyboard handler.  The task's future makes    *)
(* the ScancodeStream at its first poll and then calls poll_next until     *)
(* that returns Pending; the executor polls the task again once its waker  *)
(* has been woken.  poll_next is taken statement by statement, and the     *)
(* keyboard handler runs push_scancode in one piece between any two of     *)
(* them, also before the stream exists.  WAKER is an AtomicWaker: a slot   *)
(* for one waker, emptied by wake and by take.                             *)
(***************************************************************************)
KEYBOARD_TASK == 0

\* AtomicWaker::register
atomic_waker_register(k, waker) == [k EXCEPT !.waker = Some(waker)]

\* AtomicWaker::take
atomic_waker_take(k) == [k EXCEPT !.waker = None]

\* AtomicWaker::wake: the waker in the slot, if any, is taken and woken
atomic_waker_wake(k) ==
    IF k.waker = None THEN k
    ELSE [k EXCEPT !.waker = None, !.woken = TRUE, !.last.wakes = @ + 1]

\* what a call of push_scancode leaves behind for the properties
PushRecord(k, scancode, pushed) ==
    [seq |-> 1 - k.last.seq, scancode |-> scancode, pushed |-> pushed, wakes |-> 0]

\* a slip: the scancode is queued and WAKER.wake() is not called
push_scancode_silent(k, scancode) ==
    IF k.queue = None THEN [k EXCEPT !.last = PushRecord(k, scancode, FALSE)]
    ELSE IF ~array_queue_push(k.queue[1], scancode).ok
    THEN [k EXCEPT !.last = PushRecord(k, scancode, FALSE)]
    ELSE [k EXCEPT !.queue = Some(array_queue_push(k.queue[1], scancode).queue),
                   !.last = PushRecord(k, scancode, TRUE)]

\* push_scancode, with the waker: try_get, push, and WAKER.wake() on Ok
push_scancode_and_wake(k, scancode) ==
    IF k.queue = None THEN [k EXCEPT !.last = PushRecord(k, scancode, FALSE)]
    ELSE IF ~array_queue_push(k.queue[1], scancode).ok
    THEN [k EXCEPT !.last = PushRecord(k, scancode, FALSE)]
    ELSE atomic_waker_wake(
             [k EXCEPT !.queue = Some(array_queue_push(k.queue[1], scancode).queue),
                       !.last = PushRecord(k, scancode, TRUE)])

\* poll_next: the first queue.pop()
poll_first_pop(k) ==
    IF k.queue[1].items # <<>>
    THEN [scancode_queue_pop(k) EXCEPT !.at = "first_pop"]
    ELSE [k EXCEPT !.at = "register"]

\* a slip: Pending is returned right after the waker is registered
poll_register_returns(k, waker) ==
    [atomic_waker_register(k, waker) EXCEPT !.at = "none", !.task = "pending"]

\* poll_next: WAKER.register(&cx.waker())
poll_register(k, waker) ==
    [atomic_waker_register(k, waker) EXCEPT !.at = "second_pop"]

\* poll_next: the second queue.pop(); Err returns Poll::Pending
poll_second_pop(k) ==
    IF k.queue[1].items # <<>>
    THEN [scancode_queue_pop(k) EXCEPT !.at = "take"]
    ELSE [k EXCEPT !.at = "none", !.task = "pending"]

\* poll_next: WAKER.take(), Ready is returned and the loop calls next() again
poll_take(k) == [atomic_waker_take(k) EXCEPT !.at = "first_pop"]

InitKeys ==
    /\ keys = [queue |-> None, news |-> 0, streams |-> 0, panicked |-> FALSE,
               popped |-> None, waker |-> None, woken |-> FALSE,
               task |-> "spawned", at |-> "none",
               last |-> [seq |-> 0, scancode |-> 0, pushed |-> FALSE, wakes |-> 0]]
    /\ executor = <<>>
    /\ writer = <<>>
    /\ kbd = <<>>
    /\ vga = <<>>
    /\ AllocIdle
    /\ FrameIdle
    /\ IndexIdle
    /\ BootIdle
    /\ LockIdle
    /\ ExecIdle

\* the first poll of print_keypresses: ScancodeStream::new, then next()
TaskFirstPolled ==
    /\ keys.task = "spawned"
    /\ keys' = [scancode_stream_new(keys) EXCEPT !.task = "polling", !.at = "first_pop"]

\* the executor polls the task again after its waker was woken
TaskPolledAgain ==
    /\ keys.task = "pending"
    /\ keys.woken
    /\ keys' = [keys EXCEPT !.task = "polling", !.at = "first_pop", !.woken = FALSE]

PollFirstPop ==
    /\ keys.at = "first_pop"
    /\ keys' = poll_first_pop(keys)

PollRegister ==
    /\ keys.at = "register"
    /\ keys' = poll_register(keys, task_waker(KEYBOARD_TASK))

PollSecondPop ==
    /\ keys.at = "second_pop"
    /\ keys' = poll_second_pop(keys)

PollTake ==
    /\ keys.at = "take"
    /\ keys' = poll_take(keys)

\* the keyboard handler: scancode 1 at any time, the others while fewer
\* than MaxQueued scancodes wait
KeyboardInterrupt ==
    \E scancode \in 1 .. MaxScancode :
        /\ IF scancode = 1 \/ keys.queue = None THEN TRUE
           ELSE Len(keys.queue[1].items) < MaxQueued
        /\ keys' = push_scancode_and_wake(keys, scancode)

keysFrame == <<allocVars, frameVars, indexVars, bootVars, lockVars, exec, kbd, vga,
               executor, writer>>

NextKeys ==
    \/ TaskFirstPolled /\ UNCHANGED keysFrame
    \/ TaskPolledAgain /\ UNCHANGED keysFrame
    \/ PollFirstPop /\ UNCHANGED keysFrame
    \/ PollRegister /\ UNCHANGED keysFrame
    \/ PollSecondPop /\ UNCHANGED keysFrame
    \/ PollTake /\ UNCHANGED keysFrame
    \/ KeyboardInterrupt /\ UNCHANGED keysFrame

SpecKeys == InitKeys /\ [][NextKeys]_vars

\* C37: a call of push_scancode made while SCANCODE_QUEUE is not
\* initialised or holds 100 scancodes leaves the queue and the WAKER slot
\* as they were and wakes no waker; any other call appends its scancode to
\* the queue, and takes the waker out of the WAKER slot and wakes it once
\* if the slot holds one, and wakes none if it does not.
PushDropsOrAppendsAndWakes ==
    [][keys'.last.seq # keys.last.seq =>
          IF keys.queue = None
          THEN /\ keys'.queue = None
               /\ keys'.waker = keys.waker
               /\ keys'.woken = keys.woken
               /\ keys'.last.wakes = 0
               /\ ~keys'.last.pushed
          ELSE IF Len(keys.queue[1].items) >= 100
          THEN /\ keys'.queue = keys.queue
               /\ keys'.waker = keys.waker
               /\ keys'.woken = keys.woken
               /\ keys'.last.wakes = 0
               /\ ~keys'.last.pushed
          ELSE /\ keys'.queue[1].items
                     = Append(keys.queue[1].items, keys'.last.scancode)
               /\ keys'.queue[1].cap = 100
               /\ keys'.last.pushed
               /\ keys'.waker = None
               /\ IF keys.waker = None
                  THEN keys'.last.wakes = 0 /\ keys'.woken = keys.woken
                  ELSE keys'.last.wakes = 1 /\ keys'.woken]_vars

\* the queue holds 100 scancodes and the last one sent was dropped; the
\* task had been woken by an earlier one and has not been polled since
ScancodeDroppedOnFullQueue ==
    /\ keys.queue # None
    /\ Len(keys.queue[1].items) = 100
    /\ ~keys.last.pushed
    /\ keys.last.scancode = 1
    /\ keys.task = "pending"
    /\ keys.woken

\* C38: poll_next returns Pending only from its second pop, with the
\* task's waker in the WAKER slot and the queue empty at that pop; and
\* whenever the task is Pending, either its waker has been woken since the
\* poll began, or the queue is empty and the WAKER slot holds the task's
\* waker, so that the next scancode pushed wakes it.
PendingOnlyWhenWakeWillCome ==
    /\ [][(keys.task = "polling" /\ keys'.task = "pending")
             => /\ keys.at = "second_pop"
                /\ keys.waker = Some([task_id |-> KEYBOARD_TASK])
                /\ keys.queue[1].items = <<>>
                /\ keys'.queue = keys.queue]_vars
    /\ [](keys.task = "pending" =>
             \/ keys.woken
             \/ /\ keys.queue[1].items = <<>>
                /\ keys.waker = Some([task_id |-> KEYBOARD_TASK]))

\* the task is Pending, a scancode pushed after poll_next registered the
\* waker waits in the queue, and the wake it caused is outstanding
PendingWithScancodeAndWake ==
    /\ keys.task = "pending"
    /\ keys.queue[1].items # <<>>
    /\ keys.woken
    /\ keys.waker = None
    /\ keys.popped # None
    /\ keys.last.wakes = 1

(***************************************************************************)
(* The Writer of vga_buffer and the 25 x 80 character buffer it writes to. *)
(* Rows and columns are counted from 0 as in the source; a byte string is  *)
(* the sequence of its bytes.  A write to chars[row][col] outside the      *)
(* buffer is the index panic of the language.                              *)
(***************************************************************************)
BUFFER_HEIGHT == 25
SPACE == 32           \* b' '
PLACEHOLDER == 254    \* 0xfe
MaxWrites == 3        \* calls of write_byte and write_string

DisplayChar(ascii_char, display_code) ==
    [ascii_char |-> ascii_char, display_code |-> display_code]

\* self.buffer.chars[row][col].write(chr)
chars_write(w, row, col, chr) ==
    IF row \in 0 .. BUFFER_HEIGHT - 1 /\ col \in 0 .. BUFFER_WIDTH - 1
    THEN [w EXCEPT !.buffer[row][col] = chr]
    ELSE [w EXCEPT !.out_of_bounds = TRUE]

\* a slip: the row is left as it is
clear_row_left_out(w, row) == w

\* Writer::clear_row: every column of the row is written with the blank
clear_row(w, row) ==
    [w EXCEPT !.buffer[row] =
        [col \in 0 .. BUFFER_WIDTH - 1 |-> DisplayChar(SPACE, w.display_code)]]

\* the inner loop of new_line: every column of the row is read and written
\* into the row above
copy_row_up(w, row) ==
    [w EXCEPT !.buffer[row - 1] = [col \in 0 .. BUFFER_WIDTH - 1 |-> w.buffer[row][col]]]

\* the outer loop of new_line, from row 1 to the last row
RECURSIVE copy_rows(_, _)
copy_rows(w, row) ==
    IF w.out_of_bounds \/ row >= BUFFER_HEIGHT THEN w
    ELSE copy_rows(copy_row_up(w, row), row + 1)

\* Writer::new_line on the buffer
writer_new_line(w) ==
    [clear_row(copy_rows(w, 1), BUFFER_HEIGHT - 1) EXCEPT !.col_pos = 0]

\* the byte is put in the last row at col_pos, and col_pos moves on
put_byte(w, byte) ==
    [chars_write(w, BUFFER_HEIGHT - 1, w.col_pos, DisplayChar(byte, w.display_code))
        EXCEPT !.col_pos = @ + 1,
               !.target = Some(<<BUFFER_HEIGHT - 1, w.col_pos>>)]

\* a slip: no line break at the right-hand edge
writer_write_byte_no_wrap(w, byte) ==
    IF byte = NEWLINE THEN writer_new_line(w)
    ELSE put_byte(w, byte)

\* Writer::write_byte on the buffer
writer_write_byte(w, byte) ==
    IF byte = NEWLINE THEN writer_new_line(w)
    ELSE IF w.col_pos >= BUFFER_WIDTH THEN put_byte(writer_new_line(w), byte)
    ELSE put_byte(w, byte)

\* Writer::write_string; an index panic ends the loop
RECURSIVE write_string(_, _)
write_string(w, string) ==
    IF w.out_of_bounds \/ string = <<>> THEN w
    ELSE write_string(
             IF Head(string) \in 32 .. 126 \/ Head(string) = NEWLINE
             THEN writer_write_byte(w, Head(string))
             ELSE writer_write_byte(w, PLACEHOLDER),
             Tail(string))

\* a line of n printable bytes, no two neighbours the same
Line(n) == [i \in 1 .. n |-> 97 + (i % 26)]

\* the bytes handed to write_byte
WriteBytes == { NEWLINE, 65, 233 }

\* the strings handed to write_string: lines between new lines, lines that
\* end at, before and after the right-hand edge, and a byte that is not
\* printable
WriteStrings ==
    { <<NEWLINE>> \o Line(n) \o <<NEWLINE>> : n \in {0, 2, 79} }
    \cup { Line(n) : n \in {79, 80, 81} }
    \cup { <<233, NEWLINE>> }

\* what the screen shows when the kernel starts: nothing, or the lines the
\* bootloader left, here a different letter in every row
StartBuffers ==
    { [row \in 0 .. BUFFER_HEIGHT - 1 |->
         [col \in 0 .. BUFFER_WIDTH - 1 |-> DisplayChar(SPACE, display_code_new(15, 0))]],
      [row \in 0 .. BUFFER_HEIGHT - 1 |->
         [col \in 0 .. BUFFER_WIDTH - 1 |-> DisplayChar(65 + row, display_code_new(7, 0))]] }

NoWrite == [op |-> "none", arg |-> <<>>, seq |-> 0]

\* static ref WRITER
InitScreen ==
    /\ \E buffer \in StartBuffers :
          writer = [col_pos |-> 0, display_code |-> display_code_new(15, 0),
                    buffer |-> buffer, out_of_bounds |-> FALSE, target |-> None,
                    call |-> NoWrite, calls |-> 0]
    /\ executor = <<>>
    /\ keys = <<>>
    /\ kbd = <<>>
    /\ vga = <<>>
    /\ AllocIdle
    /\ FrameIdle
    /\ IndexIdle
    /\ BootIdle
    /\ LockIdle
    /\ ExecIdle

Called(w, op, arg) ==
    [w EXCEPT !.call = [op |-> op, arg |-> arg, seq |-> 1 - writer.call.seq],
              !.calls = writer.calls + 1]

WriteByte ==
    /\ writer.calls < MaxWrites
    /\ ~writer.out_of_bounds
    /\ \E byte \in WriteBytes :
          writer' = Called(writer_write_byte(writer, byte), "write_byte", <<byte>>)

WriteString ==
    /\ writer.calls < MaxWrites
    /\ ~writer.out_of_bounds
    /\ \E string \in WriteStrings :
          writer' = Called(write_string(writer, string), "write_string", string)

screenFrame == <<allocVars, frameVars, indexVars, bootVars, lockVars, exec, kbd, vga,
                 executor, keys>>

NextScreen ==
    \/ WriteByte /\ UNCHANGED screenFrame
    \/ WriteString /\ UNCHANGED screenFrame

SpecScreen == InitScreen /\ [][NextScreen]_vars

\* C39: after any calls of write_byte and write_string the column position
\* is between 0 and BUFFER_WIDTH, no write went outside the buffer, the
\* last character was written in row BUFFER_HEIGHT - 1 at a column below
\* BUFFER_WIDTH, and the buffer still has its 25 rows of 80 columns.
ColumnStaysInBuffer ==
    /\ writer.col_pos >= 0
    /\ writer.col_pos <= 80
    /\ ~writer.out_of_bounds
    /\ writer.target # None =>
          /\ writer.target[1][1] = 25 - 1
          /\ writer.target[1][2] >= 0
          /\ writer.target[1][2] < 80
    /\ DOMAIN writer.buffer = 0 .. 24
    /\ \A row \in 0 .. 24 : DOMAIN writer.buffer[row] = 0 .. 79

\* a line of 81 bytes was written in one call: its 80th byte stands at the
\* end of the row above the last and its 81st at the start of the last row
LineWrappedAtEdge ==
    /\ writer.call.op = "write_string"
    /\ Len(writer.call.arg) = 81
    /\ writer.col_pos = 1
    /\ writer.buffer[23][79].ascii_char = writer.call.arg[80]
    /\ writer.buffer[24][0].ascii_char = writer.call.arg[81]
    /\ writer.buffer[24][1].ascii_char = 32
    /\ writer.calls = 3

\* the bytes of a string that is written as it is: printable, no new line
Printable(string) == \A i \in 1 .. Len(string) : string[i] \in 32 .. 126

\* C40: a call that writes a new line moves every row up by one, so that the
\* top row is gone, fills the last row with blanks and sets the column to
\* 0; and a call that writes a new line, fewer than 80 printable bytes and
\* a new line leaves those bytes, in order, at the start of row
\* BUFFER_HEIGHT - 2, blanks after them, and a blank last row.
NewLineScrollsUp ==
    [][writer'.call.seq # writer.call.seq =>
          /\ writer'.call.arg = <<10>> =>
                /\ \A row \in 0 .. 23 : writer'.buffer[row] = writer.buffer[row + 1]
                /\ \A col \in 0 .. 79 :
                      writer'.buffer[24][col] = [ascii_char |-> 32,
                                                 display_code |-> writer.display_code]
                /\ writer'.col_pos = 0
          /\ (/\ Len(writer'.call.arg) >= 2
              /\ Len(writer'.call.arg) < 82
              /\ Head(writer'.call.arg) = 10
              /\ writer'.call.arg[Len(writer'.call.arg)] = 10
              /\ Printable(SubSeq(writer'.call.arg, 2, Len(writer'.call.arg) - 1)))
             => /\ \A i \in 2 .. Len(writer'.call.arg) - 1 :
                      writer'.buffer[23][i - 2].ascii_char = writer'.call.arg[i]
                /\ \A col \in Len(writer'.call.arg) - 2 .. 79 :
                      writer'.buffer[23][col].ascii_char = 32
                /\ \A col \in 0 .. 79 : writer'.buffer[24][col].ascii_char = 32
                /\ \A row \in 0 .. 21 : writer'.buffer[row] = writer.buffer[row + 2]
                /\ writer'.col_pos = 0]_vars

\* a new line, 79 letters and a new line were written after a new line had
\* come alone: the letters fill row 23 up to its last column but one
LineStandsAboveLastRow ==
    /\ writer.call.op = "write_string"
    /\ Len(writer.call.arg) = 81
    /\ Head(writer.call.arg) = 10
    /\ writer.buffer[23][0].ascii_char = writer.call.arg[2]
    /\ writer.buffer[23][78].ascii_char = writer.call.arg[80]
    /\ writer.buffer[23][79].ascii_char = 32
    /\ writer.buffer[20][0].ascii_char = 65 + 24
    /\ writer.col_pos = 0

====
